---- MODULE Spec2Model ----
(***************************************************************************)
(* The Gemini live-audio client: the connection/session lifecycle of       *)
(* GdmLiveAudio (components/views/assistant-view.ts) and the capture       *)
(* batcher of AudioService (services/audio/audio-service.ts).              *)
(*                                                                         *)
(* Everything runs on one event loop: every action below is one task of    *)
(* that loop (a user event, a socket event, a timer, a promise             *)
(* continuation), run to completion.                                       *)
(***************************************************************************)
EXTENDS Integers, Sequences, FiniteSets, TLC

VARIABLES
  \* ---- GdmLiveAudio fields
  sessionGenCounter, currentSessionGen, reconnectAttempts, reconnectTimer,
  isConnecting, stopAutoReconnect, currentModel, unsupportedModels, models,
  sessionOpen, session, isRecording, status, error, timelineEvents,
  lastLoggedSources, lastInterruptAt,
  healthTimer,       \* TRUE while the health sampler's interval is set
  lastConnectingState, lastBufferState,
  \* ---- OpenAIAudioAdapter and its OpenAIRealtimeService
  adapterIsRecording,
  oaConnected,       \* OpenAIRealtimeService.isConnected, its socket being open
  \* ---- the browser around it
  lastModelKey,      \* localStorage['gemini-last-model']
  errorTimers,       \* the pending 5 s timeouts of updateError, oldest first
  now,               \* Date.now(), in ms
  \* ---- AudioService fields
  mediaStream,       \* TRUE when the microphone stream is held
  startCalls,        \* start() calls awaiting the permission prompt
  host,              \* who constructed the AudioService: "gemini" or "openai"
  outputPendingBase64, schedulingOutput, nextStartTime, outputSources,
  decoding,          \* the chunk a scheduling pass holds in `await decodeAudioData`
  currentTime,       \* outputAudioContext.currentTime, in ms
  pendingInputChunks, pendingSamples,
  emitted,           \* the batches handed to onInputAudio, in call order
  captured,          \* the lengths of the chunks the worklet has posted
  \* ---- the remote side and the promises in flight
  sockets,           \* every websocket connect() has created
  calls,             \* the initSession invocations suspended in `await connect`
  resuming,          \* the socket whose connect() has just resolved
  \* ---- history
  autoScheduled,     \* reconnects scheduled since the last open or user restart
  unsupportedSeen,   \* models an unsupported-model failure was reported for
  sent,              \* the batches handed on to the remote side, in order
  started,           \* the playback sources started, in order
  tornDown,          \* disconnectedCallback has run
  enqueued,          \* the number of chunks playAudioChunk has been given
  stoppedSources,    \* sources stopped whose 'ended' event is still to come
  captureGraphs,     \* capture graphs wired: a device stream held, a worklet
                     \* node connected and its message handler set
  timeouts,          \* the reconnect timeouts pending in the browser
  interruptedThrough, \* the chunks enqueued when interruptPlayback last ran
  loggedKeys,         \* the source keys a timeline entry was written for
  bufferEntries,      \* the buffer entries the sampler has written, counted
                      \* modulo EntryWrap
  audioWorkletNode,   \* TRUE when this.audioWorkletNode holds a wired node
  ws,                  \* this.ws of OpenAIRealtimeService: a socket, or NoWs for null
  oaSockets,           \* the WebSockets OpenAIRealtimeService has created
  oaReconnectAttempts, \* this.reconnectAttempts of OpenAIRealtimeService
  oaWaits,             \* the sockets whose connect() is still in waitForConnection
  oaTimers,            \* the delays of the reconnect timeouts pending
  oaDisconnected       \* disconnect() was called and the owner has not called connect() since

vars == <<sessionGenCounter, currentSessionGen, reconnectAttempts, reconnectTimer,
          isConnecting, stopAutoReconnect, currentModel, unsupportedModels, models,
          sessionOpen, session, isRecording, status, error, timelineEvents,
          lastLoggedSources, lastInterruptAt, lastModelKey, errorTimers, now,
          mediaStream, startCalls, outputPendingBase64, pendingInputChunks,
          pendingSamples, emitted, captured, sockets, calls, resuming,
          autoScheduled, unsupportedSeen, host, adapterIsRecording, oaConnected,
          sent, schedulingOutput, nextStartTime, currentTime, outputSources,
          decoding, started, healthTimer, lastConnectingState, lastBufferState,
          tornDown, enqueued, stoppedSources, captureGraphs, timeouts,
          interruptedThrough, loggedKeys,
          bufferEntries, audioWorkletNode, ws, oaSockets,
          oaReconnectAttempts, oaWaits, oaTimers, oaDisconnected>>

(***************************************************************************)
(* Bounds of the model.                                                    *)
(***************************************************************************)
MaxGen == 2            \* generations when the user may restart at any time
MaxAutoGen == 8        \* generations when only the reconnect timer restarts
MaxLive == 2           \* sockets not yet closed when a session starts
MaxErrorTimers == 2    \* updateError timeouts pending at once
MaxStartCalls == 2     \* start() calls pending at once
MaxGraphs == 2         \* capture graphs wired or about to be
MaxOutputPending == 2  \* output chunks queued at once
MaxPlayChunks == 3     \* output chunks received in all
MaxClock == 450        \* the output clock stops advancing here, in ms
StartedKeep == 2       \* started sources remembered
LogKeep == 1           \* newest timeline entries kept (MAX_EVENTS in the code)
MaxChunks == 4         \* worklet messages in one capture run

(***************************************************************************)
(* Program constants.                                                      *)
(***************************************************************************)
MAX_RECONNECT_ATTEMPTS == 5
RECONNECT_BASE_MS == 500
RECONNECT_CAP_MS == 5000
INTERRUPT_DEBOUNCE_MS == 300
INPUT_BATCH_SAMPLES == 640

ConfiguredModels == <<"A", "B">>
NoModel == "none"
NoSession == 0
NoTimer == [gen |-> 0, attempt |-> 0, jitter |-> 0, delay |-> 0]
NoError == <<"no-error">>
Jitters == {0, 199}           \* Math.random() * 200, the two ends

Min(a, b) == IF a < b THEN a ELSE b
Range(f) == {f[i] : i \in DOMAIN f}

(***************************************************************************)
(* Texts.  A text is the sequence of its lower-cased words, so that the    *)
(* pattern matching of the classifiers and the comparison of the error     *)
(* timeout are computed on the text and not assumed.                       *)
(***************************************************************************)
Empty == <<>>
MsgTransport == <<"network", "error">>
MsgQuota == <<"quota", "exceeded">>
MsgUnsupported == <<"models", "a", "is", "not", "found", "for", "api", "version", "v1beta">>

QuotaText == <<"cota", "do", "modelo", "excedida", "verifique", "seu", "plano", "billing">>
NoModelText == <<"nenhum", "modelo", "live", "compativel", "disponivel">>
MicText == <<"erro", "ao", "iniciar", "gravacao", "permission", "denied">>
FailText(msg) == <<"falha", "ao", "conectar", "ao", "assistente">> \o msg
ClosedText(reason) == <<"conexao", "fechada">> \o reason
TerminalTexts == {QuotaText, NoModelText}

OrElse(text, fallback) == IF text = Empty THEN fallback ELSE text

HasWord(msg, words) == \E i \in 1..Len(msg) : msg[i] \in words
\* /a\s+b.*c/ on the words of msg
HasPairThen(msg, a, b, c) ==
  \E i \in 1..Len(msg) : \E j \in 1..Len(msg) :
    /\ i + 1 < j
    /\ msg[i] = a /\ msg[i + 1] = b /\ msg[j] = c

isQuotaError(msg) ==
  HasWord(msg, {"quota", "billing", "exceeded", "insufficient", "payment", "429"})

isUnsupportedLiveError(msg) ==
  \/ HasPairThen(msg, "not", "found", "v1beta")
  \/ HasPairThen(msg, "not", "supported", "bidigeneratecontent")
  \/ HasWord(msg, {"listmod"})


(***************************************************************************)
(* The state as one record, so that a handler is read top to bottom as in  *)
(* the source: every statement maps a state to the next one.               *)
(***************************************************************************)
St ==
  [sessionGenCounter |-> sessionGenCounter, currentSessionGen |-> currentSessionGen,
   reconnectAttempts |-> reconnectAttempts, reconnectTimer |-> reconnectTimer,
   isConnecting |-> isConnecting, stopAutoReconnect |-> stopAutoReconnect,
   currentModel |-> currentModel, unsupportedModels |-> unsupportedModels,
   models |-> models, sessionOpen |-> sessionOpen, session |-> session,
   isRecording |-> isRecording, status |-> status, error |-> error,
   timelineEvents |-> timelineEvents, lastLoggedSources |-> lastLoggedSources,
   lastInterruptAt |-> lastInterruptAt, lastModelKey |-> lastModelKey,
   errorTimers |-> errorTimers, now |-> now, mediaStream |-> mediaStream,
   startCalls |-> startCalls, outputPendingBase64 |-> outputPendingBase64,
   pendingInputChunks |-> pendingInputChunks, pendingSamples |-> pendingSamples,
   emitted |-> emitted, captured |-> captured, sockets |-> sockets,
   calls |-> calls, resuming |-> resuming, autoScheduled |-> autoScheduled,
   unsupportedSeen |-> unsupportedSeen,
   host |-> host,
   adapterIsRecording |-> adapterIsRecording,
   oaConnected |-> oaConnected,
   sent |-> sent,
   schedulingOutput |-> schedulingOutput,
   nextStartTime |-> nextStartTime,
   currentTime |-> currentTime,
   outputSources |-> outputSources,
   decoding |-> decoding,
   started |-> started,
   healthTimer |-> healthTimer,
   lastConnectingState |-> lastConnectingState,
   lastBufferState |-> lastBufferState,
   tornDown |-> tornDown, enqueued |-> enqueued,
   stoppedSources |-> stoppedSources, captureGraphs |-> captureGraphs,
   timeouts |-> timeouts, interruptedThrough |-> interruptedThrough,
   loggedKeys |-> loggedKeys,
   bufferEntries |-> bufferEntries, audioWorkletNode |-> audioWorkletNode,
   ws |-> ws,
   oaSockets |-> oaSockets,
   oaReconnectAttempts |-> oaReconnectAttempts,
   oaWaits |-> oaWaits,
   oaTimers |-> oaTimers,
   oaDisconnected |-> oaDisconnected]

Commit(st) ==
  /\ sessionGenCounter' = st.sessionGenCounter
  /\ currentSessionGen' = st.currentSessionGen
  /\ reconnectAttempts' = st.reconnectAttempts
  /\ reconnectTimer' = st.reconnectTimer
  /\ isConnecting' = st.isConnecting
  /\ stopAutoReconnect' = st.stopAutoReconnect
  /\ currentModel' = st.currentModel
  /\ unsupportedModels' = st.unsupportedModels
  /\ models' = st.models
  /\ sessionOpen' = st.sessionOpen
  /\ session' = st.session
  /\ isRecording' = st.isRecording
  /\ status' = st.status
  /\ error' = st.error
  /\ timelineEvents' = st.timelineEvents
  /\ lastLoggedSources' = st.lastLoggedSources
  /\ lastInterruptAt' = st.lastInterruptAt
  /\ lastModelKey' = st.lastModelKey
  /\ errorTimers' = st.errorTimers
  /\ now' = st.now
  /\ mediaStream' = st.mediaStream
  /\ startCalls' = st.startCalls
  /\ outputPendingBase64' = st.outputPendingBase64
  /\ pendingInputChunks' = st.pendingInputChunks
  /\ pendingSamples' = st.pendingSamples
  /\ emitted' = st.emitted
  /\ captured' = st.captured
  /\ sockets' = st.sockets
  /\ calls' = st.calls
  /\ resuming' = st.resuming
  /\ autoScheduled' = st.autoScheduled
  /\ unsupportedSeen' = st.unsupportedSeen
  /\ host' = st.host
  /\ adapterIsRecording' = st.adapterIsRecording
  /\ oaConnected' = st.oaConnected
  /\ sent' = st.sent
  /\ schedulingOutput' = st.schedulingOutput
  /\ nextStartTime' = st.nextStartTime
  /\ currentTime' = st.currentTime
  /\ outputSources' = st.outputSources
  /\ decoding' = st.decoding
  /\ started' = st.started
  /\ healthTimer' = st.healthTimer
  /\ lastConnectingState' = st.lastConnectingState
  /\ lastBufferState' = st.lastBufferState
  /\ tornDown' = st.tornDown
  /\ enqueued' = st.enqueued
  /\ stoppedSources' = st.stoppedSources
  /\ captureGraphs' = st.captureGraphs
  /\ timeouts' = st.timeouts
  /\ interruptedThrough' = st.interruptedThrough
  /\ loggedKeys' = st.loggedKeys
  /\ bufferEntries' = st.bufferEntries
  /\ audioWorkletNode' = st.audioWorkletNode
  /\ ws' = st.ws
  /\ oaSockets' = st.oaSockets
  /\ oaReconnectAttempts' = st.oaReconnectAttempts
  /\ oaWaits' = st.oaWaits
  /\ oaTimers' = st.oaTimers
  /\ oaDisconnected' = st.oaDisconnected

(***************************************************************************)
(* GdmLiveAudio: logging, status and error text.                           *)
(***************************************************************************)
logEvent(st, message, type) ==
  LET next == <<[message |-> message, type |-> type]>> \o st.timelineEvents
  IN  [st EXCEPT !.timelineEvents =
         IF Len(next) > LogKeep THEN SubSeq(next, 1, LogKeep) ELSE next]

updateStatus(st, msg) == [st EXCEPT !.status = msg, !.error = Empty]

updateError(st, msg) ==
  LET s1 == logEvent([st EXCEPT !.error = msg, !.status = Empty], msg, "error")
  IN  [s1 EXCEPT !.errorTimers = Append(@, msg)]

(***************************************************************************)
(* AudioService, as far as the session drives it.                          *)
(***************************************************************************)
\* session.sendRealtimeInput as the callback below calls it: on a socket that
\* is no longer open the call throws, and the callback catches it
sendRealtimeInput(st) ==
  IF st.session # NoSession /\ st.sockets[st.session].state = "open"
  THEN [st EXCEPT !.sockets[st.session].gotInput = TRUE]
  ELSE [st EXCEPT !.sessionOpen = FALSE]

\* What `sent` keeps of a batch handed on to the remote side is the number of
\* captured samples it carries; the encoding of the payload is left out.
\* the onInputAudio callback GdmLiveAudio gives the AudioService
onInputAudio(st, audioBlob) ==
  IF st.sessionOpen /\ st.isRecording
  THEN LET s1 == sendRealtimeInput(st)
       IN  IF s1.sessionOpen THEN [s1 EXCEPT !.sent = Append(@, Len(audioBlob))]
           ELSE s1
  ELSE st

\* OpenAIRealtimeService.sendAudioInput, and sendEvent below it
sendAudioInput(st, audioData) ==
  IF ~st.oaConnected THEN st
  ELSE [st EXCEPT !.sent = Append(@, Len(audioData))]

\* the onInputAudio callback OpenAIAudioAdapter gives the AudioService
handleAudioInput(st, blob) ==
  IF ~st.adapterIsRecording THEN st ELSE sendAudioInput(st, blob)

\* this.onInputAudio(createBlob(out)) in AudioService: the callback of the
\* owner that constructed it
callOnInputAudio(st, out) ==
  LET s1 == [st EXCEPT !.emitted = Append(@, out)]
  IN  IF s1.host = "openai" THEN handleAudioInput(s1, out)
      ELSE onInputAudio(s1, out)

\* A flush that takes the newest chunk first.
flushPendingInputPop(st) ==
  IF st.pendingSamples = 0 THEN st
  ELSE LET Concat[i \in 0..Len(st.pendingInputChunks)] ==
             IF i = 0 THEN <<>> ELSE st.pendingInputChunks[i] \o Concat[i - 1]
       IN  callOnInputAudio([st EXCEPT !.pendingInputChunks = <<>>,
                                       !.pendingSamples = 0],
                            Concat[Len(st.pendingInputChunks)])

flushPendingInput(st) ==
  IF st.pendingSamples = 0 THEN st
  ELSE LET Concat[i \in 0..Len(st.pendingInputChunks)] ==
             IF i = 0 THEN <<>> ELSE Concat[i - 1] \o st.pendingInputChunks[i]
       IN  callOnInputAudio([st EXCEPT !.pendingInputChunks = <<>>,
                                       !.pendingSamples = 0],
                            Concat[Len(st.pendingInputChunks)])

\* stop() reaches the graph its fields point at: the worklet node, source
\* node and stream that the latest start() stored
audioServiceStop(st) ==
  IF ~st.mediaStream THEN st
  ELSE LET s1 == IF st.audioWorkletNode
                 THEN [flushPendingInput(st) EXCEPT !.audioWorkletNode = FALSE,
                                                    !.captureGraphs = @ - 1]
                 ELSE st
       IN  [s1 EXCEPT !.mediaStream = FALSE]

\* Output pacing.  Times are in milliseconds of the output AudioContext's
\* clock; a chunk is what playAudioChunk was given: its decoded duration, its
\* place k in the order of arrival so that the order of playback shows, and
\* whether it was still queued when the call that brought it returned.
START_PREBUFFER_MS == 250
MAX_BUFFER_MS == 350
SCHEDULE_MARGIN_MS == 50

Max(a, b) == IF a >= b THEN a ELSE b

\* in ms
getBufferedOutputSeconds(st) == Max(0, st.nextStartTime - st.currentTime)

hasActiveOutput(st) == st.outputSources # {} \/ st.outputPendingBase64 # <<>>

\* One turn of the while loop of scheduleOutputIfNeeded, up to its await:
\* the head chunk is taken and the pass waits in `await decodeAudioData`, or
\* the loop ends and `finally` clears the flag.
scheduleLoop(st) ==
  IF st.outputPendingBase64 # <<>> /\ getBufferedOutputSeconds(st) < MAX_BUFFER_MS
  THEN LET fromEmpty == st.outputSources = {}
           t0 == IF fromEmpty THEN st.currentTime + START_PREBUFFER_MS
                 ELSE st.nextStartTime
           base64Data == Head(st.outputPendingBase64)
       IN  [st EXCEPT !.nextStartTime = Max(t0, st.currentTime + SCHEDULE_MARGIN_MS),
                      !.outputPendingBase64 = Tail(@),
                      !.decoding = <<[id |-> base64Data.id, dur |-> base64Data.dur,
                                      waited |-> base64Data.waited,
                                      prebuffered |-> fromEmpty]>>]
  ELSE [st EXCEPT !.schedulingOutput = FALSE]

scheduleOutputIfNeeded(st) ==
  IF st.schedulingOutput THEN st
  ELSE scheduleLoop([st EXCEPT !.schedulingOutput = TRUE])

playAudioChunk(st, data) ==
  LET base64Data == [id |-> st.enqueued + 1, dur |-> data, waited |-> FALSE]
      s1 == scheduleOutputIfNeeded(
              [st EXCEPT !.outputPendingBase64 = Append(@, base64Data),
                         !.enqueued = @ + 1])
  IN  [s1 EXCEPT !.outputPendingBase64 =
                   [k \in DOMAIN @ |-> [@[k] EXCEPT !.waited = TRUE]]]

\* window.setTimeout of scheduleReconnect: the timeout is pending in the
\* browser and its handle is stored in reconnectTimer
setTimeout(st, timer) ==
  [st EXCEPT !.timeouts = Append(@, timer), !.reconnectTimer = timer]

\* A clearTimeout that cancels nothing.
clearNothing(st, handle) == st

\* clearTimeout(handle): the timeout the handle names fires no more
clearTimeout(st, handle) ==
  IF \E i \in DOMAIN st.timeouts : st.timeouts[i] = handle
  THEN LET i == CHOOSE i \in DOMAIN st.timeouts : st.timeouts[i] = handle
       IN  [st EXCEPT !.timeouts = SubSeq(@, 1, i - 1) \o SubSeq(@, i + 1, Len(@))]
  ELSE st

\* An interrupt that leaves the queued chunks in place.
interruptPlaybackKeepQueue(st) ==
  [st EXCEPT !.stoppedSources = @ + Cardinality(st.outputSources),
             !.outputSources = {},
             !.nextStartTime = 0,
             !.interruptedThrough = st.enqueued]

\* every stopped source will deliver its 'ended' event later
interruptPlayback(st) ==
  [st EXCEPT !.stoppedSources = @ + Cardinality(st.outputSources),
             !.outputSources = {},
             !.nextStartTime = 0,
             !.outputPendingBase64 = <<>>,
             !.interruptedThrough = st.enqueued]

stopRecording(st) ==
  IF ~st.isRecording THEN st
  ELSE LET s1 == updateStatus(st, <<"parando", "gravacao">>)
           s2 == [audioServiceStop(s1) EXCEPT !.isRecording = FALSE]
           s3 == logEvent(s2, <<"gravacao", "parada">>, "record")
       IN  updateStatus(s3, <<"gravacao", "parada", "clique">>)

(***************************************************************************)
(* Failure classification and the reconnect policy.                        *)
(***************************************************************************)
handleConnectionIssue(st, context) ==
  IF isQuotaError(context)
  THEN logEvent(updateError([st EXCEPT !.stopAutoReconnect = TRUE], QuotaText),
                <<"cota", "excedida", "reconexao", "pausada">>, "error")
  ELSE st

RemoveModel(seq, model) == SelectSeq(seq, LAMBDA m : m # model)

handleUnsupportedModel(st, model, reason) ==
  LET s1 == [st EXCEPT !.unsupportedModels = @ \cup {model},
                       !.models = RemoveModel(@, model),
                       !.lastModelKey = IF @ = model THEN NoModel ELSE @]
  IN  logEvent(s1, <<"modelo", "nao", "compativel", model>> \o reason, "error")

Pow2(n) == 2 ^ n

backoffDelay(attempt, jitter) ==
  Min(RECONNECT_BASE_MS * Pow2(attempt - 1) + jitter, RECONNECT_CAP_MS)

\* scheduleReconnect without its check for a timer already pending.
scheduleReconnectAgain(st, gen, reason, jitter) ==
  IF gen # st.currentSessionGen THEN st
  ELSE IF st.stopAutoReconnect THEN st
  ELSE IF st.isConnecting THEN st
  ELSE IF SelectSeq(st.models, LAMBDA m : m \notin st.unsupportedModels) = <<>>
  THEN updateError(logEvent(st, <<"nenhum", "modelo", "live", "compativel">>, "error"),
                   NoModelText)
  ELSE LET attempt == st.reconnectAttempts + 1
           s1 == [st EXCEPT !.reconnectAttempts = attempt]
       IN  IF attempt > MAX_RECONNECT_ATTEMPTS
           THEN logEvent(s1, <<"reconexao", "cancelada">>, "error")
           ELSE LET delay == backoffDelay(attempt, jitter)
                    s2 == logEvent(s1, <<"tentando", "reconectar">>, "info")
                IN  setTimeout(s2, [gen |-> gen, attempt |-> attempt,
                                    jitter |-> jitter, delay |-> delay])

scheduleReconnect(st, gen, reason, jitter) ==
  IF gen # st.currentSessionGen THEN st
  ELSE IF st.stopAutoReconnect THEN st
  ELSE IF st.reconnectTimer # NoTimer THEN st
  ELSE IF st.isConnecting THEN st
  ELSE IF SelectSeq(st.models, LAMBDA m : m \notin st.unsupportedModels) = <<>>
  THEN updateError(logEvent(st, <<"nenhum", "modelo", "live", "compativel">>, "error"),
                   NoModelText)
  ELSE LET attempt == st.reconnectAttempts + 1
           s1 == [st EXCEPT !.reconnectAttempts = attempt]
       IN  IF attempt > MAX_RECONNECT_ATTEMPTS
           THEN logEvent(s1, <<"reconexao", "cancelada">>, "error")
           ELSE LET delay == backoffDelay(attempt, jitter)
                    s2 == logEvent(s1, <<"tentando", "reconectar">>, "info")
                IN  setTimeout(s2, [gen |-> gen, attempt |-> attempt,
                                    jitter |-> jitter, delay |-> delay])


(***************************************************************************)
(* The socket callbacks initSession hands to connect(), each closed over   *)
(* the generation and the model of its invocation.                         *)
(***************************************************************************)
\* onopen without its staleness check.
onopenUnguarded(st, generation, model) ==
  LET s1 == logEvent(st, <<"conexao", "estabelecida", model>>, "connect")
      s2 == updateStatus(s1, <<"conectado">>)
  IN  [s2 EXCEPT !.isConnecting = FALSE, !.reconnectAttempts = 0,
                 !.currentModel = model, !.sessionOpen = TRUE,
                 !.lastModelKey = model]

\* The model holds no analysed content: `this.analyses` stays empty, so onopen
\* shows 'Conectado' and initSession enables the search tool.
\* An onopen that leaves the connecting flag and the attempt counter alone.
onopenStillConnecting(st, generation, model) ==
  IF generation # st.currentSessionGen THEN st
  ELSE LET s1 == logEvent(st, <<"conexao", "estabelecida", model>>, "connect")
           s2 == updateStatus(s1, <<"conectado">>)
       IN  [s2 EXCEPT !.currentModel = model, !.sessionOpen = TRUE,
                      !.lastModelKey = model]

onopen(st, generation, model) ==
  IF generation # st.currentSessionGen THEN st
  ELSE LET s1 == logEvent(st, <<"conexao", "estabelecida", model>>, "connect")
           s2 == updateStatus(s1, <<"conectado">>)
       IN  [s2 EXCEPT !.isConnecting = FALSE, !.reconnectAttempts = 0,
                      !.currentModel = model, !.sessionOpen = TRUE,
                      !.lastModelKey = model]

\* sources.map(s => s.uri).sort(): insertion sort of the URIs
RECURSIVE Insert(_, _)
Insert(sorted, x) ==
  IF sorted = <<>> THEN <<x>>
  ELSE IF x <= Head(sorted) THEN <<x>> \o sorted
  ELSE <<Head(sorted)>> \o Insert(Tail(sorted), x)

RECURSIVE SortUris(_)
SortUris(uris) ==
  IF uris = <<>> THEN <<>> ELSE Insert(SortUris(Tail(uris)), Head(uris))

NoWeb == 0      \* a grounding chunk without a `web` entry
NoAudio == 0

\* An onmessage that carries out every interrupt signalled while recording.
onmessageNoDebounce(st, generation, message) ==
  IF generation # st.currentSessionGen THEN st
  ELSE LET s1 == IF message.audio # NoAudio
                 THEN playAudioChunk(st, message.audio) ELSE st
           sources == SelectSeq(message.groundingChunks, LAMBDA c : c # NoWeb)
           sourcesKey == SortUris(sources)
           s2 == IF Len(message.groundingChunks) > 0
                 THEN IF Len(sources) > 0 /\ sourcesKey # s1.lastLoggedSources
                      THEN logEvent([s1 EXCEPT !.lastLoggedSources = sourcesKey,
                                               !.loggedKeys = @ \cup {sourcesKey}],
                                    <<"fontes">>, "info")
                      ELSE s1
                 ELSE [s1 EXCEPT !.lastLoggedSources = <<>>]
       IN  IF message.interrupted /\ s2.isRecording
           THEN [interruptPlayback(s2) EXCEPT !.lastInterruptAt = s2.now]
           ELSE s2

onmessage(st, generation, message) ==
  IF generation # st.currentSessionGen THEN st
  ELSE LET s1 == IF message.audio # NoAudio
                 THEN playAudioChunk(st, message.audio) ELSE st
           sources == SelectSeq(message.groundingChunks, LAMBDA c : c # NoWeb)
           sourcesKey == SortUris(sources)
           s2 == IF Len(message.groundingChunks) > 0
                 THEN IF Len(sources) > 0 /\ sourcesKey # s1.lastLoggedSources
                      THEN logEvent([s1 EXCEPT !.lastLoggedSources = sourcesKey,
                                               !.loggedKeys = @ \cup {sourcesKey}],
                                    <<"fontes">>, "info")
                      ELSE s1
                 ELSE [s1 EXCEPT !.lastLoggedSources = <<>>]
       IN  IF message.interrupted /\ s2.isRecording
              /\ s2.now - s2.lastInterruptAt > INTERRUPT_DEBOUNCE_MS
           THEN [interruptPlayback(s2) EXCEPT !.lastInterruptAt = s2.now]
           ELSE s2

onerror(st, generation, model, msg, jitter) ==
  IF generation # st.currentSessionGen THEN st
  ELSE LET s1 == updateError(st, msg)
           s2 == logEvent(s1, <<"erro", "de", "conexao">> \o msg, "error")
           s3 == [s2 EXCEPT !.isConnecting = FALSE]
           s4 == IF isUnsupportedLiveError(msg)
                 THEN handleUnsupportedModel(s3, model, msg) ELSE s3
           s5 == handleConnectionIssue(s4, msg)
       IN  IF ~s5.stopAutoReconnect
           THEN scheduleReconnect(s5, generation, msg, jitter)
           ELSE s5

onclose(st, generation, model, reason, jitter) ==
  IF generation # st.currentSessionGen THEN st
  ELSE LET s1 == updateStatus(st, ClosedText(reason))
           s2 == logEvent(s1, ClosedText(reason), "disconnect")
           s3 == [s2 EXCEPT !.isConnecting = FALSE, !.sessionOpen = FALSE]
           s4 == IF s3.isRecording
                 THEN logEvent(
                        updateStatus([audioServiceStop(s3) EXCEPT !.isRecording = FALSE],
                                     <<"gravacao", "interrompida">>),
                        <<"gravacao", "interrompida", "desconexao">>, "record")
                 ELSE s3
           s5 == IF isUnsupportedLiveError(reason)
                 THEN handleUnsupportedModel(s4, model, OrElse(reason, <<"unsupported">>))
                 ELSE s4
           s6 == handleConnectionIssue(s5, OrElse(reason, <<"closed">>))
       IN  IF ~s6.stopAutoReconnect
           THEN scheduleReconnect(s6, generation, OrElse(reason, <<"closed">>), jitter)
           ELSE s6

(***************************************************************************)
(* initSession.  Its synchronous part runs up to the first `await          *)
(* connect(...)`; the loop over the roster continues each time a connect   *)
(* settles.  The loop iterates over the array `this.models` held when it   *)
(* started: the roster is replaced, never changed in place.                *)
(***************************************************************************)
\* A closed socket takes no further part: what it was is forgotten.
ClosedSocket ==
  [gen |-> 0, model |-> NoModel, state |-> "closed", errored |-> FALSE,
   gotInput |-> FALSE]

NewSocket(generation, model) ==
  [gen |-> generation, model |-> model, state |-> "connecting",
   errored |-> FALSE, gotInput |-> FALSE]

\* session.close(): the socket starts closing; its close event comes later
sessionClose(st) ==
  IF st.sockets[st.session].state = "open"
  THEN [st EXCEPT !.sockets[st.session].state = "closing"]
  ELSE st

\* the tail of initSession, after the loop has tried every model
afterLoop(st, generation, lastError, jitter) ==
  IF lastError # NoError /\ generation = st.currentSessionGen
  THEN LET s1 == updateError(st, FailText(lastError))
           s2 == [s1 EXCEPT !.isConnecting = FALSE]
           s3 == IF isUnsupportedLiveError(lastError) /\ s2.currentModel # NoModel
                 THEN handleUnsupportedModel(s2, s2.currentModel, lastError)
                 ELSE s2
           s4 == handleConnectionIssue(s3, lastError)
       IN  IF ~s4.stopAutoReconnect
           THEN scheduleReconnect(s4, generation, lastError, jitter)
           ELSE s4
  ELSE st

\* one turn of `for (const model of this.models)`: connect to roster[idx],
\* or leave the loop
\* A loop that goes through the roster from its end.
connectLoopBackwards(st, generation, roster, idx, lastError, jitter) ==
  IF idx <= Len(roster)
  THEN LET model == roster[Len(roster) - idx + 1]
           s1 == logEvent(st, <<"tentando", "conectar", model>>, "info")
           sock == Len(s1.sockets) + 1
       IN  [s1 EXCEPT !.sockets = Append(@, NewSocket(generation, model)),
                      !.calls = @ \cup {[gen |-> generation, roster |-> roster,
                                         idx |-> idx, lastError |-> lastError,
                                         sock |-> sock]}]
  ELSE afterLoop(st, generation, lastError, jitter)

connectLoop(st, generation, roster, idx, lastError, jitter) ==
  IF idx <= Len(roster)
  THEN LET s1 == logEvent(st, <<"tentando", "conectar", roster[idx]>>, "info")
           sock == Len(s1.sockets) + 1
       IN  [s1 EXCEPT !.sockets = Append(@, NewSocket(generation, roster[idx])),
                      !.calls = @ \cup {[gen |-> generation, roster |-> roster,
                                         idx |-> idx, lastError |-> lastError,
                                         sock |-> sock]}]
  ELSE afterLoop(st, generation, lastError, jitter)

\* An initSession that takes the generation already allocated.
initSessionSameGen(st, newSystemInstruction) ==
  LET generation == st.sessionGenCounter
      s0 == IF st.reconnectTimer # NoTimer
            THEN clearTimeout(st, st.reconnectTimer) ELSE st
      s1 == [s0 EXCEPT !.sessionGenCounter = generation,
                       !.currentSessionGen = generation,
                       !.reconnectTimer = NoTimer,
                       !.reconnectAttempts = 0,
                       !.isConnecting = TRUE,
                       !.stopAutoReconnect = FALSE]
      s2 == IF s1.isRecording THEN stopRecording(s1) ELSE s1
      s3 == IF s2.session # NoSession
            THEN [(IF s2.sessionOpen THEN sessionClose(s2) ELSE s2)
                    EXCEPT !.sessionOpen = FALSE]
            ELSE s2
      s4 == IF ~newSystemInstruction
            THEN logEvent(s3, <<"sessao", "reiniciada", "modo", "geral">>, "info")
            ELSE s3
      s5 == logEvent(s4, <<"busca", "do", "google", "ativada">>, "info")
      s6 == updateStatus(s5, <<"conectando">>)
  IN  connectLoop(s6, generation, s6.models, 1, NoError, 0)

initSession(st, newSystemInstruction) ==
  LET generation == st.sessionGenCounter + 1
      s0 == IF st.reconnectTimer # NoTimer
            THEN clearTimeout(st, st.reconnectTimer) ELSE st
      s1 == [s0 EXCEPT !.sessionGenCounter = generation,
                       !.currentSessionGen = generation,
                       !.reconnectTimer = NoTimer,
                       !.reconnectAttempts = 0,
                       !.isConnecting = TRUE,
                       !.stopAutoReconnect = FALSE]
      s2 == IF s1.isRecording THEN stopRecording(s1) ELSE s1
      s3 == IF s2.session # NoSession
            THEN [(IF s2.sessionOpen THEN sessionClose(s2) ELSE s2)
                    EXCEPT !.sessionOpen = FALSE]
            ELSE s2
      s4 == IF ~newSystemInstruction
            THEN logEvent(s3, <<"sessao", "reiniciada", "modo", "geral">>, "info")
            ELSE s3
      s5 == logEvent(s4, <<"busca", "do", "google", "ativada">>, "info")
      s6 == updateStatus(s5, <<"conectando">>)
  IN  connectLoop(s6, generation, s6.models, 1, NoError, 0)


(***************************************************************************)
(* The state after construction: the constructor orders the roster by the  *)
(* persisted last model, logs, and calls initSession().                    *)
(***************************************************************************)
orderModels(configured, last) ==
  IF last # NoModel /\ last \in Range(configured)
  THEN <<last>> \o SelectSeq(configured, LAMBDA m : m # last)
  ELSE configured

Fresh(last) ==
  [sessionGenCounter |-> 0, currentSessionGen |-> 0, reconnectAttempts |-> 0,
   reconnectTimer |-> NoTimer, isConnecting |-> FALSE, stopAutoReconnect |-> FALSE,
   currentModel |-> NoModel, unsupportedModels |-> {},
   models |-> orderModels(ConfiguredModels, last),
   sessionOpen |-> FALSE, session |-> NoSession, isRecording |-> FALSE,
   status |-> Empty, error |-> Empty, timelineEvents |-> <<>>,
   lastLoggedSources |-> <<>>, lastInterruptAt |-> 0, lastModelKey |-> last,
   errorTimers |-> <<>>, now |-> INTERRUPT_DEBOUNCE_MS + 1, mediaStream |-> FALSE,
   startCalls |-> 0, outputPendingBase64 |-> <<>>, pendingInputChunks |-> <<>>,
   pendingSamples |-> 0, emitted |-> <<>>, captured |-> <<>>, sockets |-> <<>>,
   calls |-> {}, resuming |-> NoSession, autoScheduled |-> 0,
   unsupportedSeen |-> {}, host |-> "gemini", adapterIsRecording |-> FALSE,
   oaConnected |-> FALSE, sent |-> <<>>, schedulingOutput |-> FALSE,
   nextStartTime |-> 0, currentTime |-> 0, outputSources |-> {},
   decoding |-> <<>>, started |-> <<>>, healthTimer |-> FALSE,
   lastConnectingState |-> "null", lastBufferState |-> "null",
   tornDown |-> FALSE, enqueued |-> 0, stoppedSources |-> 0,
   captureGraphs |-> 0, timeouts |-> <<>>, interruptedThrough |-> 0,
   loggedKeys |-> {},
   bufferEntries |-> 0, audioWorkletNode |-> FALSE,
   ws |-> 0,
   oaSockets |-> <<>>,
   oaReconnectAttempts |-> 0,
   oaWaits |-> {},
   oaTimers |-> <<>>,
   oaDisconnected |-> FALSE]

Constructed(last) ==
  [initSession(logEvent(Fresh(last), <<"assistente", "inicializado">>, "info"), FALSE)
     EXCEPT !.healthTimer = TRUE]

Is(st) ==
  /\ sessionGenCounter = st.sessionGenCounter
  /\ currentSessionGen = st.currentSessionGen
  /\ reconnectAttempts = st.reconnectAttempts
  /\ reconnectTimer = st.reconnectTimer
  /\ isConnecting = st.isConnecting
  /\ stopAutoReconnect = st.stopAutoReconnect
  /\ currentModel = st.currentModel
  /\ unsupportedModels = st.unsupportedModels
  /\ models = st.models
  /\ sessionOpen = st.sessionOpen
  /\ session = st.session
  /\ isRecording = st.isRecording
  /\ status = st.status
  /\ error = st.error
  /\ timelineEvents = st.timelineEvents
  /\ lastLoggedSources = st.lastLoggedSources
  /\ lastInterruptAt = st.lastInterruptAt
  /\ lastModelKey = st.lastModelKey
  /\ errorTimers = st.errorTimers
  /\ now = st.now
  /\ mediaStream = st.mediaStream
  /\ startCalls = st.startCalls
  /\ outputPendingBase64 = st.outputPendingBase64
  /\ pendingInputChunks = st.pendingInputChunks
  /\ pendingSamples = st.pendingSamples
  /\ emitted = st.emitted
  /\ captured = st.captured
  /\ sockets = st.sockets
  /\ calls = st.calls
  /\ resuming = st.resuming
  /\ autoScheduled = st.autoScheduled
  /\ unsupportedSeen = st.unsupportedSeen
  /\ host = st.host
  /\ adapterIsRecording = st.adapterIsRecording
  /\ oaConnected = st.oaConnected
  /\ sent = st.sent
  /\ schedulingOutput = st.schedulingOutput
  /\ nextStartTime = st.nextStartTime
  /\ currentTime = st.currentTime
  /\ outputSources = st.outputSources
  /\ decoding = st.decoding
  /\ started = st.started
  /\ healthTimer = st.healthTimer
  /\ lastConnectingState = st.lastConnectingState
  /\ lastBufferState = st.lastBufferState
  /\ tornDown = st.tornDown
  /\ enqueued = st.enqueued
  /\ stoppedSources = st.stoppedSources
  /\ captureGraphs = st.captureGraphs
  /\ timeouts = st.timeouts
  /\ interruptedThrough = st.interruptedThrough
  /\ loggedKeys = st.loggedKeys
  /\ bufferEntries = st.bufferEntries
  /\ audioWorkletNode = st.audioWorkletNode
  /\ ws = st.ws
  /\ oaSockets = st.oaSockets
  /\ oaReconnectAttempts = st.oaReconnectAttempts
  /\ oaWaits = st.oaWaits
  /\ oaTimers = st.oaTimers
  /\ oaDisconnected = st.oaDisconnected

Init == \E last \in {NoModel} \cup Range(ConfiguredModels) : Is(Constructed(last))

(***************************************************************************)
(* History kept beside the program state.                                  *)
(***************************************************************************)
\* a reconnect timer was set by this step
NoteScheduled(before, after) ==
  IF after.reconnectTimer # NoTimer /\ before.reconnectTimer = NoTimer
  THEN [after EXCEPT !.autoScheduled = @ + 1] ELSE after

\* an unsupported-model failure of `model` reached the current generation
NoteUnsupported(before, after, generation, model, msg) ==
  IF generation = before.currentSessionGen /\ isUnsupportedLiveError(msg)
  THEN [after EXCEPT !.unsupportedSeen = @ \cup {model}] ELSE after

Idle == resuming = NoSession /\ decoding = <<>>
LiveRoom == Cardinality({s \in 1..Len(sockets) : sockets[s].state # "closed"}) < MaxLive
TimerRoom == Len(errorTimers) < MaxErrorTimers
SocketIds == 1..Len(sockets)
CallOf(s) == CHOOSE c \in calls : c.sock = s
Awaited(s) == \E c \in calls : c.sock = s

(***************************************************************************)
(* The remote side: what can happen to a socket that connect() created.    *)
(***************************************************************************)
\* the socket opens: the onopen callback runs, and connect() resolves
SocketOpens(s) ==
  /\ Idle
  /\ sockets[s].state = "connecting" /\ ~sockets[s].errored
  /\ LET s1 == onopen(St, sockets[s].gen, sockets[s].model)
         s2 == IF sockets[s].gen = currentSessionGen
               THEN [s1 EXCEPT !.autoScheduled = 0] ELSE s1
     IN  Commit([s2 EXCEPT !.sockets[s].state = "open", !.resuming = s])

\* `this.session = await connect(...)` resumes, in the microtasks of the open
\* event: no other task runs in between
ConnectResolves ==
  /\ resuming # NoSession
  /\ LET s1 == [St EXCEPT !.session = resuming, !.error = Empty]
         s2 == logEvent(s1, <<"compressao", "habilitada">>, "info")
     IN  Commit([s2 EXCEPT !.calls = @ \ {CallOf(resuming)},
                           !.resuming = NoSession])

\* connect() rejects before its socket reports anything: the catch block
\* records the error and the loop goes on to the next model
ConnectRejects(s, msg, jitter) ==
  /\ Idle /\ TimerRoom
  /\ Awaited(s)
  /\ sockets[s].state = "connecting" /\ ~sockets[s].errored
  /\ LET c == CallOf(s)
         model == c.roster[c.idx]
         s1 == [St EXCEPT !.sockets[s] = ClosedSocket, !.calls = @ \ {c}]
         s2 == logEvent(s1, <<"falha", "ao", "conectar", model>> \o msg, "error")
         s3 == connectLoop(s2, c.gen, c.roster, c.idx + 1, msg, jitter)
     IN  Commit(NoteUnsupported(St, NoteScheduled(St, s3), c.gen, model, msg))

SocketError(s, msg, jitter) ==
  /\ Idle /\ TimerRoom
  /\ sockets[s].state \in {"connecting", "open", "closing"} /\ ~sockets[s].errored
  /\ LET s1 == onerror(St, sockets[s].gen, sockets[s].model, msg, jitter)
         s2 == NoteUnsupported(St, NoteScheduled(St, s1), sockets[s].gen,
                               sockets[s].model, msg)
     IN  Commit([s2 EXCEPT !.sockets[s].errored = TRUE])

\* the socket closes: the onclose callback runs.  A connect() still waiting
\* for this socket to open never settles, and its initSession never resumes.
SocketClose(s, reason, jitter) ==
  /\ Idle /\ TimerRoom
  /\ sockets[s].state \in {"connecting", "open", "closing"}
  /\ LET s1 == onclose(St, sockets[s].gen, sockets[s].model, reason, jitter)
         s2 == NoteUnsupported(St, NoteScheduled(St, s1), sockets[s].gen,
                               sockets[s].model, reason)
     IN  Commit([s2 EXCEPT !.sockets[s] = ClosedSocket,
                           !.calls = {c \in @ : c.sock # s}])

SocketMessage(s, message) ==
  /\ Idle
  /\ sockets[s].state = "open"
  /\ message.audio # NoAudio =>
       Len(outputPendingBase64) < MaxOutputPending /\ enqueued < MaxPlayChunks
  /\ Commit(onmessage(St, sockets[s].gen, message))

KeepLast(seq, n) == IF Len(seq) > n THEN SubSeq(seq, Len(seq) - n + 1, Len(seq)) ELSE seq

\* `await decodeAudioData(...)` resumes: decodeAudioData has no await of its
\* own, so this is a microtask of the task that took the chunk, with the
\* clock where it was.  The source is started, and the loop goes round.
\* A start that leaves nextStartTime where it was.
startSourceInPlace(st) ==
  LET chunk == st.decoding[1]
      source == [id |-> chunk.id, start |-> st.nextStartTime,
                 end |-> Max(st.nextStartTime, st.currentTime) + chunk.dur]
      note == [id |-> chunk.id, start |-> st.nextStartTime, at |-> st.currentTime,
               end |-> st.nextStartTime + chunk.dur,
               prebuffered |-> chunk.prebuffered, waited |-> chunk.waited]
  IN  [st EXCEPT !.decoding = <<>>,
                 !.outputSources = @ \cup {source},
                 !.started = KeepLast(Append(@, note), StartedKeep)]

\* the loop body after the await: the source is created, started at
\* nextStartTime, nextStartTime moves to its end, and it joins outputSources
startSource(st) ==
  LET chunk == st.decoding[1]
      source == [id |-> chunk.id, start |-> st.nextStartTime,
                 end |-> Max(st.nextStartTime, st.currentTime) + chunk.dur]
      note == [id |-> chunk.id, start |-> st.nextStartTime, at |-> st.currentTime,
               end |-> st.nextStartTime + chunk.dur,
               prebuffered |-> chunk.prebuffered, waited |-> chunk.waited]
  IN  [st EXCEPT !.decoding = <<>>,
                 !.outputSources = @ \cup {source},
                 !.nextStartTime = @ + chunk.dur,
                 !.started = KeepLast(Append(@, note), StartedKeep)]

DecodeResolves ==
  /\ decoding # <<>>
  /\ Commit(scheduleLoop(startSource(St)))

\* An 'ended' listener that only forgets the source.
onendedForget(st, source) == [st EXCEPT !.outputSources = @ \ {source}]

\* the 'ended' listener scheduleOutputIfNeeded gives every source
onended(st, source) ==
  scheduleOutputIfNeeded([st EXCEPT !.outputSources = @ \ {source}])

\* a source has played to its end and its 'ended' event is delivered
SourceEnded(source) ==
  /\ Idle
  /\ source \in outputSources
  /\ currentTime >= source.end
  /\ Commit(onended(St, source))

\* the 'ended' listener of a source that interruptPlayback stopped
StoppedSourceEnded ==
  /\ Idle
  /\ stoppedSources > 0
  /\ Commit(scheduleOutputIfNeeded([St EXCEPT !.stoppedSources = @ - 1]))

\* time passes, on the output clock and on Date.now() alike
TickMs == 50
TickBefore(limit) ==
  /\ Idle
  /\ currentTime < limit
  /\ Commit([St EXCEPT !.currentTime = @ + TickMs, !.now = @ + TickMs])

Tick == TickBefore(MaxClock)

\* time passes while a source is playing
TickWhilePlaying == \E source \in outputSources : TickBefore(source.end)

(***************************************************************************)
(* Timers.                                                                 *)
(***************************************************************************)
\* the callback scheduleReconnect handed to setTimeout
ReconnectTimerFires(maxGen) ==
  /\ Idle
  /\ sessionGenCounter < maxGen /\ LiveRoom
  /\ \E i \in DOMAIN timeouts :
       LET s0 == [St EXCEPT !.timeouts = SubSeq(@, 1, i - 1) \o
                                          SubSeq(@, i + 1, Len(@))]
       IN  IF timeouts[i].gen # currentSessionGen
           THEN Commit(s0)
           ELSE LET s1 == [s0 EXCEPT !.reconnectTimer = NoTimer,
                                     !.isConnecting = TRUE,
                                     !.models = SelectSeq(@, LAMBDA m :
                                                   m \notin unsupportedModels)]
                IN  Commit(initSession(s1, TRUE))

\* the setTimeout of updateError, 5 s after the call; the timeouts all last
\* 5 s, so they fire in the order they were set
ErrorTimerFires ==
  /\ Idle
  /\ errorTimers # <<>>
  /\ LET msg == Head(errorTimers)
         s1 == [St EXCEPT !.errorTimers = Tail(@)]
     IN  Commit(IF s1.error = msg THEN [s1 EXCEPT !.error = Empty] ELSE s1)

(***************************************************************************)
(* The health sampler and the teardown of the component.                   *)
(***************************************************************************)
\* a sampler that knows no middle band: everything from 120 ms to 500 ms
\* counts as healthy
bufferStateNoNormal(activeOutput, ms) ==
  IF ~activeOutput /\ ms = 0 THEN "idle"
  ELSE IF ms < 60 THEN "err"
  ELSE IF ms < 120 THEN "warn"
  ELSE IF ms > 500 THEN "high"
  ELSE "healthy"

\* the sampler's `state`, from hasActiveOutput() and the buffered ms
bufferState(activeOutput, ms) ==
  IF ~activeOutput /\ ms = 0 THEN "idle"
  ELSE IF ms < 60 THEN "err"
  ELSE IF ms < 120 THEN "warn"
  ELSE IF ms > 500 THEN "high"
  ELSE IF ms >= 200 /\ ms <= 350 THEN "healthy"
  ELSE "normal"

\* the switch over the new state: the entry each state writes, if any
EntryWrap == 2
logBufferEntry(st, message, type) ==
  logEvent([st EXCEPT !.bufferEntries = (@ + 1) % EntryWrap], message, type)

logBufferState(st, state) ==
  IF state = "healthy" THEN logBufferEntry(st, <<"buffer", "saudavel">>, "info")
  ELSE IF state = "warn" THEN logBufferEntry(st, <<"buffer", "baixo">>, "info")
  ELSE IF state = "err" THEN logBufferEntry(st, <<"buffer", "critico">>, "error")
  ELSE IF state = "high" THEN logBufferEntry(st, <<"buffer", "alto">>, "info")
  ELSE st

\* a sampler that writes the entry of the state it finds on every sample
healthSampleEverySample(st) ==
  LET connecting == IF st.isConnecting THEN "true" ELSE "false"
      s1 == IF st.lastConnectingState # connecting
            THEN logEvent([st EXCEPT !.lastConnectingState = connecting],
                          IF st.isConnecting THEN <<"estado", "conectando">>
                          ELSE <<"estado", "conectado">>,
                          IF st.isConnecting THEN "info" ELSE "connect")
            ELSE st
      ms == getBufferedOutputSeconds(s1)
      state == bufferState(hasActiveOutput(s1), ms)
      s2 == [s1 EXCEPT !.lastBufferState = state]
  IN  logBufferState(s2, state)

\* the callback of the constructor's setInterval(..., 500); the copies it
\* makes for display (bufferSeconds, pendingSeconds, retryCount, connecting)
\* are not kept
healthSample(st) ==
  LET connecting == IF st.isConnecting THEN "true" ELSE "false"
      s1 == IF st.lastConnectingState # connecting
            THEN logEvent([st EXCEPT !.lastConnectingState = connecting],
                          IF st.isConnecting THEN <<"estado", "conectando">>
                          ELSE <<"estado", "conectado">>,
                          IF st.isConnecting THEN "info" ELSE "connect")
            ELSE st
      ms == getBufferedOutputSeconds(s1)
      state == bufferState(hasActiveOutput(s1), ms)
      s2 == [s1 EXCEPT !.lastBufferState = state]
  IN  IF state = s1.lastBufferState THEN s1 ELSE logBufferState(s2, state)

HealthSample ==
  /\ Idle
  /\ healthTimer
  /\ Commit(healthSample(St))

disconnectedCallback(st) == [st EXCEPT !.healthTimer = FALSE, !.tornDown = TRUE]

DisconnectedCallback ==
  /\ Idle
  /\ ~tornDown
  /\ Commit(disconnectedCallback(St))

(***************************************************************************)
(* The user.                                                               *)
(***************************************************************************)
\* reset(): a new session from the 'reset' button
UserRestart(maxGen) ==
  /\ Idle
  /\ sessionGenCounter < maxGen /\ LiveRoom
  /\ LET s1 == initSession([St EXCEPT !.timelineEvents = <<>>], FALSE)
         s2 == updateStatus(s1, <<"sessao", "reiniciada">>)
         s3 == logEvent(s2, <<"sessao", "reiniciada">>, "info")
     IN  Commit([s3 EXCEPT !.autoScheduled = 0])

\* start() from the point getUserMedia resolves: the stream, the source node
\* and the worklet node are stored over whatever the fields held, the
\* message handler is set and the nodes are connected
audioServiceStarted(st) ==
  [st EXCEPT !.mediaStream = TRUE, !.audioWorkletNode = TRUE,
             !.captureGraphs = @ + 1]

listening(st) ==
  logEvent(updateStatus([st EXCEPT !.isRecording = TRUE], <<"estou", "ouvindo">>),
           <<"gravacao", "iniciada">>, "record")

\* startRecording() up to `await this.audioService.start()`; start() returns
\* at once when the stream is already held
StartRecording ==
  /\ Idle
  /\ ~isRecording
  /\ startCalls < MaxStartCalls
  /\ mediaStream \/ captureGraphs + startCalls < MaxGraphs
  /\ LET s1 == updateStatus(St, <<"pedindo", "acesso", "ao", "microfone">>)
     IN  Commit(IF s1.mediaStream THEN listening(s1)
                ELSE [s1 EXCEPT !.startCalls = @ + 1])

StartResolves ==
  /\ Idle
  /\ startCalls > 0
  /\ Commit(listening(audioServiceStarted([St EXCEPT !.startCalls = @ - 1])))

\* A catch block that only resets the flag.
startFailedSilently(st) == [st EXCEPT !.isRecording = FALSE]

\* the catch block of startRecording
startFailed(st) == [updateError(st, MicText) EXCEPT !.isRecording = FALSE]

\* start() rejects: the permission was denied or no device was found
StartRejects ==
  /\ Idle /\ TimerRoom
  /\ startCalls > 0
  /\ Commit(startFailed([St EXCEPT !.startCalls = @ - 1]))

\* start() has the stream and throws while it builds the capture graph
\* (createMediaStreamSource or new AudioWorkletNode): the stream stays in
\* this.mediaStream, no node is wired
audioServiceStartedHalfway(st) == [st EXCEPT !.mediaStream = TRUE]

StartGraphFails ==
  /\ Idle /\ TimerRoom
  /\ startCalls > 0
  /\ Commit(startFailed(audioServiceStartedHalfway([St EXCEPT !.startCalls = @ - 1])))

StopRecording ==
  /\ Idle
  /\ isRecording
  /\ Commit(stopRecording(St))

\* one batch from the capture pipeline reaches the onInputAudio callback
\* while a session is open and recording is on; its samples are left out
OnInputAudio ==
  /\ Idle
  /\ captureGraphs > 0
  /\ sessionOpen /\ isRecording
  /\ Commit(sendRealtimeInput(St))

(***************************************************************************)
(* The capture batcher of AudioService.                                    *)
(***************************************************************************)
\* An enqueue at the front of the backlog.
enqueueInputFront(st, chunk) ==
  IF Len(chunk) = 0 THEN st
  ELSE [st EXCEPT !.pendingInputChunks = <<chunk>> \o @,
                  !.pendingSamples = @ + Len(chunk)]

enqueueInput(st, chunk) ==
  IF Len(chunk) = 0 THEN st
  ELSE [st EXCEPT !.pendingInputChunks = Append(@, chunk),
                  !.pendingSamples = @ + Len(chunk)]

Zeros(n) == [i \in 1..n |-> 0]

\* A copy loop that leaves the head chunk whole after a partial copy.
RECURSIVE fillBatchKeepHead(_, _, _)
fillBatchKeepHead(chunks, out, remaining) ==
  IF remaining > 0 /\ chunks # <<>>
  THEN LET head == chunks[1]
           toCopy == Min(remaining, Len(head))
       IN  fillBatchKeepHead(IF toCopy = Len(head) THEN Tail(chunks) ELSE chunks,
                             out \o SubSeq(head, 1, toCopy), remaining - toCopy)
  ELSE [chunks |-> chunks, out |-> out \o Zeros(remaining)]

\* the inner loop of drainInputBatches: copy `remaining` samples from the
\* front of the backlog into `out`, a zero-filled Float32Array
RECURSIVE fillBatch(_, _, _)
fillBatch(chunks, out, remaining) ==
  IF remaining > 0 /\ chunks # <<>>
  THEN LET head == chunks[1]
           toCopy == Min(remaining, Len(head))
       IN  fillBatch(IF toCopy = Len(head) THEN Tail(chunks)
                     ELSE <<SubSeq(head, toCopy + 1, Len(head))>> \o Tail(chunks),
                     out \o SubSeq(head, 1, toCopy), remaining - toCopy)
  ELSE [chunks |-> chunks, out |-> out \o Zeros(remaining)]

RECURSIVE drainInputBatches(_)
drainInputBatches(st) ==
  IF st.pendingSamples >= INPUT_BATCH_SAMPLES
  THEN LET r == fillBatch(st.pendingInputChunks, <<>>, INPUT_BATCH_SAMPLES)
       IN  drainInputBatches(
             callOnInputAudio([st EXCEPT !.pendingInputChunks = r.chunks,
                                         !.pendingSamples = @ - INPUT_BATCH_SAMPLES],
                              r.out))
  ELSE st

RECURSIVE Sum(_)
Sum(lens) == IF lens = <<>> THEN 0 ELSE Head(lens) + Sum(Tail(lens))

\* The k-th sample the microphone delivers has the value k, so that a batch
\* shows which samples it holds and in which order.
ChunkLens == {1, 128, 512, 639, 640, 641, 1280}

\* port.onmessage of the worklet node: one chunk of `len` samples
OnWorkletMessage(len) ==
  /\ Idle
  /\ captureGraphs > 0
  /\ Len(captured) < MaxChunks
  /\ LET first == Sum(captured)
         chunk == [i \in 1..len |-> first + i]
         s1 == drainInputBatches(enqueueInput(St, chunk))
     IN  Commit([s1 EXCEPT !.captured = Append(@, len)])

(***************************************************************************)
(* OpenAIAudioAdapter, the other owner of an AudioService.                 *)
(***************************************************************************)
AdapterConstructed == [Fresh(NoModel) EXCEPT !.host = "openai"]

\* ws.onopen of OpenAIRealtimeService, after the adapter's connect()
OpenAIOpens ==
  /\ host = "openai"
  /\ ~oaConnected
  /\ Commit([St EXCEPT !.oaConnected = TRUE])

\* OpenAIAudioAdapter.startRecording up to `await this.audioService.start()`
AdapterStartRecording ==
  /\ host = "openai"
  /\ ~adapterIsRecording
  /\ startCalls < MaxStartCalls
  /\ mediaStream \/ captureGraphs + startCalls < MaxGraphs
  /\ Commit(IF mediaStream THEN [St EXCEPT !.adapterIsRecording = TRUE]
            ELSE [St EXCEPT !.adapterIsRecording = TRUE, !.startCalls = @ + 1])

\* start() resolves: the microphone stream is held and the worklet is wired
AdapterStartResolves ==
  /\ host = "openai"
  /\ startCalls > 0
  /\ Commit(audioServiceStarted([St EXCEPT !.startCalls = @ - 1]))

\* OpenAIAudioAdapter.stopRecording; the events of commitInput are not kept
AdapterStopRecording ==
  /\ host = "openai"
  /\ adapterIsRecording
  /\ Commit(audioServiceStop([St EXCEPT !.adapterIsRecording = FALSE]))

\* GdmLiveAudioOpenAI, the controller above the adapter: the lines of its
\* startRecording after `await this.openAIAdapter.startRecording()`
recordingOpenAI(st) ==
  logEvent([st EXCEPT !.isRecording = TRUE, !.status = <<"gravando">>],
           <<"gravacao", "iniciada", "openai">>, "info")

\* the catch block of the controller's startRecording
startFailedOpenAI(st) ==
  logEvent([st EXCEPT !.error = <<"erro", "ao", "iniciar", "gravacao">>],
           <<"erro">>, "error")

\* toggleRecording while the controller is not recording: startRecording up
\* to the adapter's `await this.audioService.start()`.  The adapter returns
\* at once when its flag is set, and so does start() when the stream is held
OpenAIStartRecording ==
  /\ host = "openai"
  /\ ~isRecording
  /\ startCalls < MaxStartCalls
  /\ adapterIsRecording \/ mediaStream \/ captureGraphs + startCalls < MaxGraphs
  /\ Commit(IF adapterIsRecording THEN recordingOpenAI(St)
            ELSE IF mediaStream
            THEN recordingOpenAI([St EXCEPT !.adapterIsRecording = TRUE])
            ELSE [St EXCEPT !.adapterIsRecording = TRUE, !.startCalls = @ + 1])

\* start() resolves, and with it the adapter's startRecording
OpenAIStartResolves ==
  /\ host = "openai"
  /\ startCalls > 0
  /\ Commit(recordingOpenAI(audioServiceStarted([St EXCEPT !.startCalls = @ - 1])))

\* start() rejects before it has the stream; the adapter lets the rejection
\* through to the controller
OpenAIStartRejects ==
  /\ host = "openai"
  /\ startCalls > 0
  /\ Commit(startFailedOpenAI([St EXCEPT !.startCalls = @ - 1]))

\* toggleRecording while the controller is recording: stopRecording
OpenAIStopRecording ==
  /\ host = "openai"
  /\ isRecording
  /\ LET s1 == IF adapterIsRecording
               THEN audioServiceStop([St EXCEPT !.adapterIsRecording = FALSE])
               ELSE St
     IN  Commit(logEvent([s1 EXCEPT !.isRecording = FALSE,
                                    !.status = <<"gravacao", "parada">>],
                         <<"gravacao", "parada", "openai">>, "info"))

(***************************************************************************)
(* OpenAIRealtimeService: its WebSockets, the waits of its connect() calls *)
(* and its reconnect timeouts.  The handlers of a socket are closures over *)
(* the service, not over the socket: an old socket's events act on the     *)
(* service's fields like those of the newest one.  When a timer fires      *)
(* relative to the others is left open.                                    *)
(***************************************************************************)
OA_MAX_RECONNECT_ATTEMPTS == 5
OA_RECONNECT_DELAY_MS == 1000
NoWs == 0
MaxOaSockets == 3
OaSocketIds == 1..Len(oaSockets)

\* handleReconnect, called for the failure of socket s: at the limit it only
\* reports, otherwise it counts the attempt and sets a timeout whose handle
\* is not kept
handleReconnect(st, s) ==
  IF st.oaReconnectAttempts >= OA_MAX_RECONNECT_ATTEMPTS THEN st
  ELSE LET attempts == st.oaReconnectAttempts + 1
           delay == OA_RECONNECT_DELAY_MS * Pow2(attempts - 1)
       IN  [st EXCEPT !.oaReconnectAttempts = attempts,
                      !.oaTimers = Append(@, delay),
                      !.oaSockets[s].reconnects = @ + 1]

\* connect() up to `await this.waitForConnection()`: unless a socket is held
\* and connected, a new WebSocket replaces this.ws, which is not closed
oaConnect(st) ==
  IF st.ws # NoWs /\ st.oaConnected THEN st
  ELSE LET s == Len(st.oaSockets) + 1
       IN  [st EXCEPT !.oaSockets = Append(@, [state |-> "connecting",
                                               reconnects |-> 0]),
                      !.ws = s,
                      !.oaWaits = @ \cup {s}]

\* disconnect() of the service
oaDisconnect(st) ==
  IF st.ws = NoWs THEN st
  ELSE LET was == st.oaSockets[st.ws].state
       IN  [st EXCEPT !.oaConnected = FALSE,
                      !.oaSockets[st.ws].state =
                         IF was = "open" THEN "closing"
                         ELSE IF was = "connecting" THEN "aborting"
                         ELSE was,
                      !.ws = NoWs]

\* the owner calls connect(), OpenAIAudioAdapter.connect, when the service
\* holds no socket: after construction, or after a disconnect
OaOwnerConnect ==
  /\ host = "openai"
  /\ ws = NoWs
  /\ Len(oaSockets) < MaxOaSockets
  /\ Commit(oaConnect([St EXCEPT !.oaDisconnected = FALSE]))

\* ws.onopen
OaSocketOpens(s) ==
  /\ oaSockets[s].state = "connecting"
  /\ Commit([St EXCEPT !.oaSockets[s].state = "open",
                       !.oaConnected = TRUE,
                       !.oaReconnectAttempts = 0])

\* ws.onclose.  A socket that never opened, or whose connection was
\* abandoned while it was connecting, closes uncleanly; an open socket may
\* close either way; a socket closed by close(1000) after it had opened
\* closes cleanly
OaSocketCloses(s, wasClean) ==
  /\ oaSockets[s].state \in {"connecting", "aborting", "open", "closing"}
  /\ oaSockets[s].state \in {"connecting", "aborting"} => ~wasClean
  /\ oaSockets[s].state = "closing" => wasClean
  /\ LET s1 == [St EXCEPT !.oaSockets[s].state = "closed",
                          !.oaConnected = FALSE]
     IN  Commit(IF wasClean THEN s1 ELSE handleReconnect(s1, s))

\* the interval of waitForConnection finds isConnected set: connect() goes on
\* to configureSession, whose event is not kept
OaWaitResolves(s) ==
  /\ s \in oaWaits
  /\ oaConnected
  /\ Commit([St EXCEPT !.oaWaits = @ \ {s}])

\* the timeout of waitForConnection rejects after 10 s without a connection:
\* the catch block of connect() reports and calls handleReconnect
OaWaitTimesOut(s) ==
  /\ s \in oaWaits
  /\ ~oaConnected
  /\ Commit(handleReconnect([St EXCEPT !.oaWaits = @ \ {s}], s))

\* the callback of handleReconnect's setTimeout: this.connect()
OaReconnectTimerFires(i) ==
  /\ i \in DOMAIN oaTimers
  /\ Len(oaSockets) < MaxOaSockets
  /\ Commit(oaConnect([St EXCEPT !.oaTimers =
                          SubSeq(@, 1, i - 1) \o SubSeq(@, i + 1, Len(@))]))

\* OpenAIAudioAdapter.disconnect: stopRecording, interruptPlayback and the
\* service's disconnect
OaDisconnect ==
  /\ host = "openai"
  /\ ~oaDisconnected
  /\ LET s1 == IF adapterIsRecording
               THEN audioServiceStop([St EXCEPT !.adapterIsRecording = FALSE])
               ELSE St
     IN  Commit(oaDisconnect([interruptPlayback(s1) EXCEPT !.oaDisconnected = TRUE]))

\* SpecRealtime: the OpenAI service connects, loses its sockets, reconnects
\* and is disconnected by its owner.
NextRealtime ==
  \/ OaOwnerConnect
  \/ \E s \in OaSocketIds : OaSocketOpens(s)
  \/ \E s \in OaSocketIds, wasClean \in BOOLEAN : OaSocketCloses(s, wasClean)
  \/ \E s \in OaSocketIds : OaWaitResolves(s)
  \/ \E s \in OaSocketIds : OaWaitTimesOut(s)
  \/ \E i \in DOMAIN oaTimers : OaReconnectTimerFires(i)
  \/ OaDisconnect

SpecRealtime == Is(AdapterConstructed) /\ [][NextRealtime]_vars

(***************************************************************************)
(* Specifications.  Each one lets the remote side, the timers and the user *)
(* act in any order; they differ in which of them take part.               *)
(***************************************************************************)
\* a server message, and whether the output scheduler has room when it comes
Message(a, g, i) ==
  [audio |-> a, groundingChunks |-> g, interrupted |-> i]
Messages ==
  {Message(100, <<1>>, TRUE)}

\* Spec: initSession calls (the user's and the reconnect timer's) against
\* the events of the sockets they leave behind.
Next ==
  \/ \E s \in SocketIds : SocketOpens(s)
  \/ ConnectResolves
  \/ \E s \in SocketIds : ConnectRejects(s, MsgTransport, 0)
  \/ \E s \in SocketIds : SocketError(s, MsgTransport, 0)
  \/ \E s \in SocketIds : SocketClose(s, Empty, 0)
  \/ \E s \in SocketIds, message \in Messages : SocketMessage(s, message)
  \/ DecodeResolves
  \/ ReconnectTimerFires(MaxGen)
  \/ ErrorTimerFires
  \/ UserRestart(MaxGen)

Spec == Is(Constructed(NoModel)) /\ [][Next]_vars

\* SpecRecording: the user records and restarts while the remote side opens
\* sockets or fails them with transport and quota errors.
NextRecording ==
  \/ \E s \in SocketIds : SocketOpens(s)
  \/ ConnectResolves
  \/ \E s \in SocketIds, msg \in {MsgTransport, MsgQuota} : SocketError(s, msg, 0)
  \/ \E s \in SocketIds, reason \in {Empty, MsgQuota} : SocketClose(s, reason, 0)
  \/ ReconnectTimerFires(MaxGen)
  \/ ErrorTimerFires
  \/ UserRestart(MaxGen)
  \/ StartRecording
  \/ StartResolves
  \/ StartRejects
  \/ StopRecording
  \/ OnInputAudio

SpecRecording == Is(Constructed(NoModel)) /\ [][NextRecording]_vars

\* SpecFallback: connection attempts fail with transport and
\* unsupported-model errors, or open; the user may restart.
NextFallback ==
  \/ \E s \in SocketIds : SocketOpens(s)
  \/ ConnectResolves
  \/ \E s \in SocketIds, msg \in {MsgTransport, MsgUnsupported} : ConnectRejects(s, msg, 0)
  \/ \E s \in SocketIds, msg \in {MsgTransport, MsgUnsupported} : SocketError(s, msg, 0)
  \/ \E s \in SocketIds, reason \in {Empty, MsgUnsupported} : SocketClose(s, reason, 0)
  \/ ReconnectTimerFires(MaxGen)
  \/ ErrorTimerFires
  \/ UserRestart(MaxGen)

SpecFallback == Is(Constructed(NoModel)) /\ [][NextFallback]_vars

\* SpecRoster: the same failures with nobody at the controls, followed for
\* one generation more: long enough for the roster to run out of models.
MaxRosterGen == 3

NextRoster ==
  \/ \E s \in SocketIds : SocketOpens(s)
  \/ ConnectResolves
  \/ \E s \in SocketIds, msg \in {MsgTransport, MsgUnsupported} : ConnectRejects(s, msg, 0)
  \/ \E s \in SocketIds, msg \in {MsgTransport, MsgUnsupported} : SocketError(s, msg, 0)
  \/ \E s \in SocketIds, reason \in {Empty, MsgUnsupported} : SocketClose(s, reason, 0)
  \/ ReconnectTimerFires(MaxRosterGen)
  \/ ErrorTimerFires

SpecRoster == Is(Constructed(NoModel)) /\ [][NextRoster]_vars

\* SpecTransport: every connection attempt fails with a transport error and
\* the user does nothing; only the reconnect timer starts new sessions.
NextTransport ==
  \/ \E s \in SocketIds, j \in Jitters : ConnectRejects(s, MsgTransport, j)
  \/ \E s \in SocketIds, j \in Jitters : SocketError(s, MsgTransport, j)
  \/ \E s \in SocketIds, j \in Jitters : SocketClose(s, MsgTransport, j)
  \/ ReconnectTimerFires(MaxAutoGen)
  \/ ErrorTimerFires

SpecTransport == Init /\ [][NextTransport]_vars

\* the user has pressed record at once and the microphone was granted
Capturing ==
  listening([updateStatus(Constructed(NoModel), <<"pedindo", "acesso", "ao", "microfone">>)
               EXCEPT !.mediaStream = TRUE, !.audioWorkletNode = TRUE,
                      !.captureGraphs = 1])

\* BatcherSpec: the capture pipeline is running and the worklet posts chunks.
NextBatcher == \E len \in ChunkLens : OnWorkletMessage(len)

BatcherSpec == Is(Capturing) /\ [][NextBatcher]_vars

\* Playback of a burst of chunks with nobody speaking: the session opens,
\* chunks arrive, time passes, sources end.
Durations == {100, 200}

NextPlayback ==
  \/ \E s \in SocketIds : SocketOpens(s)
  \/ ConnectResolves
  \/ \E s \in SocketIds, dur \in Durations :
       SocketMessage(s, Message(dur, <<>>, FALSE))
  \/ DecodeResolves
  \/ \E source \in outputSources : SourceEnded(source)
  \/ Tick

SpecPlayback == Is(Constructed(NoModel)) /\ [][NextPlayback]_vars

\* SpecPlaybackLive: the same burst, followed for as long as it plays.  The
\* event loop runs every continuation and delivers every 'ended' event, and
\* the output clock advances while a source is playing; when the server
\* sends a chunk is up to the server.
LiveDurations == {100}

NextPlaybackLive ==
  \/ \E s \in SocketIds : SocketOpens(s)
  \/ ConnectResolves
  \/ \E s \in SocketIds, dur \in LiveDurations :
       SocketMessage(s, Message(dur, <<>>, FALSE))
  \/ DecodeResolves
  \/ \E source \in outputSources : SourceEnded(source)
  \/ TickWhilePlaying

SpecPlaybackLive ==
  /\ Is(Constructed(NoModel))
  /\ [][NextPlaybackLive]_vars
  /\ WF_vars(DecodeResolves)
  /\ WF_vars(\E source \in outputSources : SourceEnded(source))
  /\ WF_vars(TickWhilePlaying)

\* Playback while the user is recording and the server reports barge-in.
BargeInMessages ==
  {Message(100, <<>>, FALSE), Message(100, <<>>, TRUE), Message(NoAudio, <<>>, TRUE)}

NextBargeIn ==
  \/ \E s \in SocketIds : SocketOpens(s)
  \/ ConnectResolves
  \/ \E s \in SocketIds, message \in BargeInMessages : SocketMessage(s, message)
  \/ DecodeResolves
  \/ \E source \in outputSources : SourceEnded(source)
  \/ StoppedSourceEnded
  \/ Tick

SpecBargeIn == Is(Capturing) /\ [][NextBargeIn]_vars

\* SpecDebounce: the same messages, with the user recording or not.
NextDebounce ==
  \/ \E s \in SocketIds : SocketOpens(s)
  \/ ConnectResolves
  \/ \E s \in SocketIds, message \in BargeInMessages : SocketMessage(s, message)
  \/ DecodeResolves
  \/ \E source \in outputSources : SourceEnded(source)
  \/ StoppedSourceEnded
  \/ Tick

SpecDebounce ==
  /\ Is(Capturing) \/ Is(Constructed(NoModel))
  /\ [][NextDebounce]_vars

\* SpecGrounding: messages with and without grounding metadata reach an
\* open session; the source lists name the URIs 1 and 2 in either order.
GroundingLists == {<<>>, <<1>>, <<2>>, <<1, 2>>, <<2, 1>>, <<NoWeb>>, <<NoWeb, 1>>}

GroundingMessages == {Message(NoAudio, g, FALSE) : g \in GroundingLists}

NextGrounding ==
  \/ \E s \in SocketIds : SocketOpens(s)
  \/ ConnectResolves
  \/ \E s \in SocketIds, message \in GroundingMessages : SocketMessage(s, message)
  \/ UserRestart(MaxGen)

SpecGrounding == Is(Constructed(NoModel)) /\ [][NextGrounding]_vars

\* The loop over the roster: connect() resolves or rejects for each model,
\* a failed round is retried by the reconnect timer, and the user restarts.
NextConnect ==
  \/ \E s \in SocketIds : SocketOpens(s)
  \/ ConnectResolves
  \/ \E s \in SocketIds, msg \in {MsgTransport, MsgUnsupported} : ConnectRejects(s, msg, 0)
  \/ \E s \in SocketIds : SocketClose(s, Empty, 0)
  \/ ReconnectTimerFires(MaxGen)
  \/ ErrorTimerFires
  \/ UserRestart(MaxGen)

SpecConnect == Is(Constructed(NoModel)) /\ [][NextConnect]_vars

\* Reconnects under transport and quota failures, with user restarts.
NextReconnect ==
  \/ \E s \in SocketIds : SocketOpens(s)
  \/ ConnectResolves
  \/ \E s \in SocketIds, msg \in {MsgTransport, MsgQuota} : SocketError(s, msg, 0)
  \/ \E s \in SocketIds : SocketClose(s, Empty, 0)
  \/ ReconnectTimerFires(MaxGen)
  \/ ErrorTimerFires
  \/ UserRestart(MaxGen)

SpecReconnect == Is(Constructed(NoModel)) /\ [][NextReconnect]_vars

\* The component is removed from the page while its session lives on.
NextTeardown ==
  \/ \E s \in SocketIds : SocketOpens(s)
  \/ ConnectResolves
  \/ \E s \in SocketIds : SocketError(s, MsgTransport, 0)
  \/ \E s \in SocketIds : SocketClose(s, Empty, 0)
  \/ ReconnectTimerFires(MaxGen)
  \/ ErrorTimerFires
  \/ HealthSample
  \/ DisconnectedCallback

SpecTeardown == Is(Constructed(NoModel)) /\ [][NextTeardown]_vars

\* SpecHealth: the sampler runs while a burst of chunks plays out; the
\* chunks are long enough for the buffered audio to pass every threshold.
HealthDurations == {100, 300}

NextHealth ==
  \/ \E s \in SocketIds : SocketOpens(s)
  \/ ConnectResolves
  \/ \E s \in SocketIds, dur \in HealthDurations :
       SocketMessage(s, Message(dur, <<>>, FALSE))
  \/ DecodeResolves
  \/ \E source \in outputSources : SourceEnded(source)
  \/ Tick
  \/ HealthSample

SpecHealth == Is(Constructed(NoModel)) /\ [][NextHealth]_vars

\* Capture under either owner of the AudioService, with user stops and
\* restarts: GdmLiveAudio with its live session, or OpenAIAudioAdapter.
StopChunkLens == {128, 512}

NextStop ==
  \/ \E s \in SocketIds : SocketOpens(s)
  \/ ConnectResolves
  \/ host = "gemini" /\ StartRecording
  \/ host = "gemini" /\ StartResolves
  \/ host = "gemini" /\ StopRecording
  \/ OpenAIOpens
  \/ AdapterStartRecording
  \/ AdapterStartResolves
  \/ AdapterStopRecording
  \/ \E len \in StopChunkLens : OnWorkletMessage(len)

SpecStop ==
  /\ Is(Constructed(NoModel)) \/ Is(AdapterConstructed)
  /\ [][NextStop]_vars

\* SpecCaptureStop: one capture from its start to its stop, under either
\* owner: the worklet posts chunks, then the owner stops the recording.
FlushChunkLens == {1, 128, 639, 640, 641}

\* the adapter has started recording at once and the microphone was granted
AdapterCapturing ==
  audioServiceStarted([AdapterConstructed EXCEPT !.adapterIsRecording = TRUE])

NextCaptureStop ==
  \/ \E len \in FlushChunkLens : OnWorkletMessage(len)
  \/ host = "gemini" /\ StopRecording
  \/ AdapterStopRecording

SpecCaptureStop ==
  /\ Is(Capturing) \/ Is(AdapterCapturing)
  /\ [][NextCaptureStop]_vars

\* SpecStart: the record button of GdmLiveAudio, pressed again at will and
\* never followed by a stop; the session connects meanwhile.
NextStart ==
  \/ \E s \in SocketIds : SocketOpens(s)
  \/ ConnectResolves
  \/ StartRecording
  \/ StartResolves
  \/ StartRejects
  \/ ErrorTimerFires
  \/ \E len \in StopChunkLens : OnWorkletMessage(len)

SpecStart == Is(Constructed(NoModel)) /\ [][NextStart]_vars

\* SpecStartFails: the record button again, with a start() that may fail at
\* any of its steps, and a stop button.
NextStartFails ==
  \/ \E s \in SocketIds : SocketOpens(s)
  \/ ConnectResolves
  \/ StartRecording
  \/ StartResolves
  \/ StartRejects
  \/ StartGraphFails
  \/ StopRecording
  \/ ErrorTimerFires

SpecStartFails == Is(Constructed(NoModel)) /\ [][NextStartFails]_vars

\* SpecAdapterStart: the record button of GdmLiveAudioOpenAI; the
\* microphone may be refused.
AdapterChunkLens == {128, 640}

NextAdapterStart ==
  \/ OpenAIOpens
  \/ OpenAIStartRecording
  \/ OpenAIStartResolves
  \/ OpenAIStartRejects
  \/ OpenAIStopRecording
  \/ \E len \in AdapterChunkLens : OnWorkletMessage(len)

SpecAdapterStart == Is(AdapterConstructed) /\ [][NextAdapterStart]_vars

(***************************************************************************)
(* Stale callbacks.                                                        *)
(***************************************************************************)
Observable ==
  <<status, error, isRecording, sessionOpen, isConnecting, reconnectAttempts,
    reconnectTimer, models, currentModel, outputPendingBase64, timelineEvents>>

\* a socket callback of a generation that is not the current one runs
StaleCallback ==
  \E s \in SocketIds :
    /\ sockets[s].state # "closed"
    /\ sockets[s].gen # currentSessionGen
    /\ \/ SocketOpens(s)
       \/ \E message \in Messages : SocketMessage(s, message)
       \/ SocketError(s, MsgTransport, 0)
       \/ SocketClose(s, Empty, 0)

\* C1: an onopen, onmessage, onerror or onclose callback that runs when its
\* generation is not the current one leaves status, error, isRecording,
\* sessionOpen, isConnecting, reconnectAttempts, the reconnect timer, the
\* roster, currentModel, the playback queue and the event log unchanged.
C1_StaleCallbackChangesNothing == [][StaleCallback => UNCHANGED Observable]_vars

\* the onopen of a socket of an earlier generation has just run
C1_StaleOnopenRan ==
  resuming # NoSession /\ sockets[resuming].gen # currentSessionGen

(***************************************************************************)
(* The reconnect policy.                                                   *)
(***************************************************************************)
\* C2: when every attempt fails with a transport error and the user never
\* restarts, at most 5 reconnects are scheduled.
C2_AtMostFiveReconnects == autoScheduled <= MAX_RECONNECT_ATTEMPTS

\* C3: the n-th consecutive reconnect since the last open or user restart is
\* scheduled with delay min(500 * 2^(n-1) + jitter, 5000).
C3_DelayDoublesPerReconnect ==
  reconnectTimer # NoTimer =>
    reconnectTimer.delay =
      Min(RECONNECT_BASE_MS * Pow2(autoScheduled - 1) + reconnectTimer.jitter,
          RECONNECT_CAP_MS)

\* C4: once an unsupported-model failure of a model has been reported (by
\* connect() or by the socket's onerror/onclose), no initSession attempts
\* that model again.
C4_UnsupportedModelNeverRetried ==
  [][\A s \in 1..Len(sockets') :
       s > Len(sockets) => sockets'[s].model \notin unsupportedSeen]_vars

(***************************************************************************)
(* Quota errors and recording.                                             *)
(***************************************************************************)
QuotaEventWhileRecording ==
  \E s \in SocketIds :
    /\ sockets[s].gen = currentSessionGen
    /\ isRecording
    /\ SocketError(s, MsgQuota, 0) \/ SocketClose(s, MsgQuota, 0)

\* C5: after a quota error or close has been handled for the current
\* generation while recording, recording and capture are stopped, the error
\* text is the quota message, no reconnect timer is pending and isConnecting
\* is false.
C5_QuotaStopsRecording ==
  [][QuotaEventWhileRecording =>
       /\ ~isRecording' /\ ~mediaStream'
       /\ error' = QuotaText
       /\ reconnectTimer' = NoTimer
       /\ ~isConnecting']_vars

\* C6: while auto-reconnect is disabled by a quota error, the reconnect timer
\* does not invoke initSession.
C6_NoReconnectAfterQuota ==
  [][stopAutoReconnect => ~ReconnectTimerFires(MaxGen)]_vars

\* C7: an input batch is only ever sent on a socket of the current
\* generation.
C7_InputSentOnCurrentSession ==
  [][\A s \in SocketIds :
       (sockets'[s].gotInput /\ ~sockets[s].gotInput)
         => sockets[s].gen = currentSessionGen]_vars

StaleSocketOpen ==
  \E s \in SocketIds :
    sockets[s].state = "open" /\ sockets[s].gen # currentSessionGen

\* the client has no step of its own left to run: no connect() continuation
\* and no timer is pending
Quiescent ==
  resuming = NoSession /\ reconnectTimer = NoTimer /\ errorTimers = <<>>

\* C8: once the client has run every step it had pending, no socket of an
\* earlier generation is open (one that were would stay open for as long as
\* the remote side and the user do nothing).
C8_NoStaleSocketLeftOpen == Quiescent => ~StaleSocketOpen

\* C9: no timer clears a terminal error (quota exceeded, no compatible model).
C9_TerminalErrorPersists ==
  [][(error \in TerminalTexts /\ ErrorTimerFires) => error' = error]_vars

(***************************************************************************)
(* The capture batcher.                                                    *)
(***************************************************************************)
\* C10: when the chunks captured so far hold k * 640 samples in all, exactly
\* k batches have been emitted, each of 640 samples, and together they are
\* the captured samples in their order.
C10_BatchesAreTheInput ==
  Sum(captured) % INPUT_BATCH_SAMPLES = 0 =>
    /\ Len(emitted) = Sum(captured) \div INPUT_BATCH_SAMPLES
    /\ \A b \in 1..Len(emitted) :
         /\ Len(emitted[b]) = INPUT_BATCH_SAMPLES
         /\ \A i \in 1..INPUT_BATCH_SAMPLES :
              emitted[b][i] = (b - 1) * INPUT_BATCH_SAMPLES + i

\* two batches assembled across chunk boundaries
C10_TwoBatchesAcrossChunks ==
  /\ Sum(captured) = 2 * INPUT_BATCH_SAMPLES
  /\ Len(emitted) = 2
  /\ \A i \in 1..Len(captured) : captured[i] % INPUT_BATCH_SAMPLES # 0


(***************************************************************************)
(* The flush of the capture backlog on stop.                               *)
(***************************************************************************)
\* AudioService.stop() runs while the stream is held, under either owner
Flushing == mediaStream /\ (StopRecording \/ AdapterStopRecording)

\* the r samples captured last, in order
Leftover(r) == [i \in 1..r |-> Sum(captured) - r + i]

\* C11: a flush with r > 0 leftover samples hands exactly one batch to the
\* callback, holding exactly those r samples in capture order, and empties
\* the backlog; a flush with nothing left over hands over nothing.
C11_FlushEmitsTheLeftoverOnce ==
  [][Flushing =>
       IF pendingSamples > 0
       THEN /\ emitted' = Append(emitted, Leftover(pendingSamples))
            /\ pendingInputChunks' = <<>>
            /\ pendingSamples' = 0
       ELSE /\ emitted' = emitted
            /\ pendingInputChunks' = <<>>
            /\ pendingSamples' = 0]_vars

\* a stop has flushed a short batch made of the two chunks captured
C11_FlushedTwoChunks ==
  /\ ~mediaStream
  /\ captured = <<128, 128>>
  /\ emitted = <<Leftover(256)>>
  /\ pendingSamples = 0

\* the remote sender takes what it is given: the live session is open on an
\* open socket, or the realtime service is connected
RemoteReady ==
  IF host = "openai" THEN oaConnected
  ELSE /\ sessionOpen /\ session # NoSession
       /\ sockets[session].state = "open"

\* C12: when the user stops recording with r > 0 samples in the backlog and
\* the remote side is connected, those samples reach the remote sender as
\* one final batch, on the stop path of GdmLiveAudio and on that of
\* OpenAIAudioAdapter.
C12_StopSendsTheLeftover ==
  [][Flushing /\ pendingSamples > 0 /\ RemoteReady =>
       sent' = Append(sent, pendingSamples)]_vars

\* C12 on the stop path of GdmLiveAudio alone
C12_GeminiStopSendsTheLeftover ==
  [][Flushing /\ host = "gemini" /\ pendingSamples > 0 /\ RemoteReady =>
       sent' = Append(sent, pendingSamples)]_vars



(***************************************************************************)
(* Output pacing.                                                          *)
(***************************************************************************)
\* C13: however the chunks arrive and whenever their decoding resolves, the
\* audio scheduled ahead of the clock, nextStartTime - currentTime, never
\* exceeds MAX_BUFFER_SEC (350 ms).
C13_BufferedAheadAtMostMax == getBufferedOutputSeconds(St) <= MAX_BUFFER_MS

\* C14: once playback has begun, every source is started with a start time
\* at least SCHEDULE_MARGIN_SEC (50 ms) after the clock at that moment.
C14_StartKeepsTheMargin ==
  \A n \in 2..Len(started) :
    started[n].start >= started[n].at + SCHEDULE_MARGIN_MS

\* onmessage of the current generation reaches interruptPlayback()
Interrupting ==
  \E s \in SocketIds, message \in BargeInMessages :
    /\ SocketMessage(s, message)
    /\ sockets[s].gen = currentSessionGen
    /\ message.interrupted /\ isRecording
    /\ now - lastInterruptAt > INTERRUPT_DEBOUNCE_MS

\* C15: right after interruptPlayback() has returned, hasActiveOutput() is
\* false and getBufferedOutputSeconds() is 0, whatever the state it was
\* called in, a scheduling pass suspended in decoding included.
C15_InterruptLeavesNothing ==
  [][Interrupting =>
       /\ ~hasActiveOutput(St')
       /\ getBufferedOutputSeconds(St') = 0]_vars

\* interruptPlayback() has just run with a source scheduled and a pass
\* suspended in the decoding of the next chunk
C15_InterruptedWhileDecoding ==
  /\ decoding # <<>>
  /\ nextStartTime = 0
  /\ lastInterruptAt = now
  /\ stoppedSources > 0

\* C16: in a burst with no interrupt, a chunk that had to wait in the queue
\* is started exactly at the scheduled end of the source before it, and only
\* a chunk that found the queue and the set of sources empty is given a new
\* prebuffer delay.
C16_BurstHasNoGap ==
  \A n \in 2..Len(started) :
    started[n].waited =>
      /\ started[n].start = started[n - 1].end
      /\ ~started[n].prebuffered



(***************************************************************************)
(* scheduleReconnect and the end of the roster.                            *)
(***************************************************************************)
\* what scheduleReconnect may touch
ReconnectFrame(st) ==
  <<st.reconnectAttempts, st.reconnectTimer, st.status, st.error, st.models,
    st.timelineEvents, st.errorTimers>>

\* C17: called with a generation that is not the current one, or while
\* auto-reconnect is disabled, or while a reconnect timer is pending,
\* scheduleReconnect changes nothing: reconnectAttempts, the timer, status,
\* error and the roster stay as they were.
C17_ScheduleReconnectNoOp ==
  \A gen \in 0..sessionGenCounter, jitter \in Jitters, reason \in {Empty, MsgTransport} :
    (gen # currentSessionGen \/ stopAutoReconnect \/ reconnectTimer # NoTimer) =>
      ReconnectFrame(scheduleReconnect(St, gen, reason, jitter)) = ReconnectFrame(St)

\* onerror has set the timer, and the onclose that followed, of the current
\* generation, has called scheduleReconnect again: its log entry is the last
C17_CalledWithTimerPending ==
  /\ status = ClosedText(Empty)
  /\ timelineEvents # <<>> /\ timelineEvents[1].type = "disconnect"
  /\ reconnectTimer # NoTimer /\ reconnectTimer.gen = currentSessionGen
  /\ reconnectAttempts = 1 /\ autoScheduled = 1
  /\ ~stopAutoReconnect /\ ~isConnecting



\* no model of the roster is left that is not marked unsupported
AllUnsupported(st) ==
  SelectSeq(st.models, LAMBDA m : m \notin st.unsupportedModels) = <<>>

\* a connection failure reaches the current generation: its socket errors or
\* closes, or its connect() rejects
ConnectionFailure ==
  \E s \in SocketIds :
    /\ sockets[s].gen = currentSessionGen
    /\ \/ \E msg \in {MsgTransport, MsgUnsupported} : SocketError(s, msg, 0)
       \/ \E reason \in {Empty, MsgUnsupported} : SocketClose(s, reason, 0)
       \/ \E msg \in {MsgTransport, MsgUnsupported} : ConnectRejects(s, msg, 0)

\* C18: a connection failure that leaves every model of the roster marked
\* unsupported sets no reconnect timer and surfaces the no-compatible-model
\* error, and from then on no connection is attempted.
C18_NoModelLeftIsTerminal ==
  [][/\ ConnectionFailure /\ AllUnsupported(St') =>
          reconnectTimer' = NoTimer /\ error' = NoModelText
     /\ AllUnsupported(St) => Len(sockets') = Len(sockets)]_vars




(***************************************************************************)
(* The order of the connection attempts of one initSession.                *)
(***************************************************************************)
\* the model of a socket created in this step is the first of the roster, or
\* the one after the model whose connect() has just rejected
AttemptInOrder(s) ==
  \E c \in calls' :
    /\ c.sock = s
    /\ sockets'[s].gen = c.gen
    /\ sockets'[s].model = c.roster[c.idx]
    /\ \/ c.idx = 1 /\ c.roster = models'
       \/ \E p \in calls \ calls' :
            /\ p.gen = c.gen /\ p.roster = c.roster /\ p.idx + 1 = c.idx
            /\ sockets[p.sock].state = "connecting"
            /\ sockets'[p.sock].state = "closed"

\* the text of a failed connection has just been put up
FailureSurfaced ==
  /\ error' # error
  /\ \E msg \in {MsgTransport, MsgUnsupported} : error' = FailText(msg)

\* C19: an initSession attempts the models in roster order, one at a time,
\* each after the connect() to the one before it has rejected, and none once
\* a connect() has resolved; the model whose socket opens is recorded as
\* currentModel and persisted as the last model; the connection failure is
\* surfaced only when the connect() to the last model of the roster has
\* rejected.
C19_ModelsTriedInOrder ==
  [][/\ \A s \in 1..Len(sockets') : s > Len(sockets) => AttemptInOrder(s)
     /\ \A c, d \in calls' : c.gen = d.gen => c = d
     /\ ConnectResolves =>
          /\ Len(sockets') = Len(sockets)
          /\ \A c \in calls' : c.gen # CallOf(resuming).gen
     /\ \A s \in SocketIds :
          SocketOpens(s) /\ sockets[s].gen = currentSessionGen =>
            currentModel' = sockets[s].model /\ lastModelKey' = sockets[s].model
     /\ FailureSurfaced =>
          \E p \in calls \ calls' :
            /\ p.gen = currentSessionGen /\ p.idx = Len(p.roster)
            /\ sockets'[p.sock].state = "closed"]_vars

\* the connect() to A has rejected and the socket of B, tried next, is open:
\* B is the current model and the persisted one
C19_SecondModelOpened ==
  /\ currentSessionGen = 1
  /\ sessionOpen /\ session # NoSession /\ resuming = NoSession
  /\ sockets[session].model = "B"
  /\ currentModel = "B" /\ lastModelKey = "B"
  /\ models = <<"A", "B">>



(***************************************************************************)
(* Teardown.                                                               *)
(***************************************************************************)
\* the callback of the reconnect timer runs for the current generation and
\* calls initSession
ReconnectTimerInvokesInit ==
  /\ reconnectTimer # NoTimer
  /\ reconnectTimer.gen = currentSessionGen
  /\ ReconnectTimerFires(MaxGen)

\* C20: after disconnectedCallback has run, the health sampler takes no
\* further sample and a reconnect timer that was pending does not invoke
\* initSession.
C20_NoTimerFiresAfterTeardown ==
  [][tornDown => ~HealthSample /\ ~ReconnectTimerInvokesInit]_vars

\* C20 for the health sampler alone
C20_NoSampleAfterTeardown == [][tornDown => ~HealthSample]_vars


(***************************************************************************)
(* Starting and stopping the capture.                                      *)
(***************************************************************************)
\* C21: with no stop() in between, however the start() calls follow or
\* overlap one another, at most one capture graph exists: one stream held,
\* one worklet node connected, one message handler set.
C21_OneCaptureGraph == captureGraphs <= 1

\* stop() is called on the AudioService, by either owner
StopCall == StopRecording \/ AdapterStopRecording

\* what a step may do to a stopped or stopping AudioService
C22_StopStep ==
  /\ StopCall /\ mediaStream =>
       /\ ~mediaStream' /\ captureGraphs' = 0
       /\ pendingInputChunks' = <<>> /\ pendingSamples' = 0
  /\ StopCall /\ ~mediaStream =>
       UNCHANGED <<mediaStream, captureGraphs, emitted, sent,
                   pendingInputChunks, pendingSamples>>
  /\ ~mediaStream => emitted' = emitted

\* C22: a stop() with the stream held flushes the backlog, leaves no worklet
\* message handler set, no node connected and no device held; a stop() of a
\* stopped service emits nothing and changes nothing; and once stop() has
\* returned no input batch is emitted until the capture is started again.
C22_StopIsFinal == [][C22_StopStep]_vars

\* C22 as long as the only graph wired is the one the fields point at
C22_StopIsFinalForOneGraph ==
  [][captureGraphs = (IF mediaStream THEN 1 ELSE 0) => C22_StopStep]_vars

\* the catch block of startRecording runs
StartFailing == startCalls > 0 /\ StartRejects

EarlierErrorTimerFires == Len(errorTimers) >= 2 /\ ErrorTimerFires

\* C24: the timeout of one updateError call never clears an error text or a
\* status that a later call has set, whatever the text of the later call.
C24_TimerSparesLaterError ==
  [][EarlierErrorTimerFires => error' = error /\ status' = status]_vars


(***************************************************************************)
(* Session generations.                                                    *)
(***************************************************************************)
\* initSession is called: by the constructor (before the first state), by
\* reset() and by the callback of the reconnect timer
InitSessionCalled ==
  \E maxGen \in {MaxGen, MaxAutoGen} :
    \/ UserRestart(maxGen)
    \/ /\ \E i \in DOMAIN timeouts : timeouts[i].gen = currentSessionGen
       /\ ReconnectTimerFires(maxGen)

\* the initSession invocations of generation g that have not returned: they
\* are suspended in connect(), or about to resume from it
Holders(g) == {c \in calls : c.gen = g}

\* C25: every initSession call raises the generation counter by exactly
\* one, nothing else changes it, currentSessionGen always equals the value
\* allocated last, and at most one initSession invocation holds the current
\* generation.
C25_GenerationsAreFresh ==
  [][/\ InitSessionCalled => sessionGenCounter' = sessionGenCounter + 1
     /\ ~InitSessionCalled => sessionGenCounter' = sessionGenCounter
     /\ currentSessionGen = sessionGenCounter
     /\ currentSessionGen' = sessionGenCounter'
     /\ Cardinality(Holders(currentSessionGen)) <= 1
     /\ Cardinality(Holders(currentSessionGen))' <= 1]_vars

\* the second generation is connecting while the invocation of the first is
\* still suspended in its connect()
C25_TwoInvocationsSuspended ==
  /\ currentSessionGen = 2
  /\ \E c1, c2 \in calls : c1.gen = 1 /\ c2.gen = 2


\* C26: at most one reconnect timeout is pending, and a pending one was set
\* under the current generation and is the one reconnectTimer names:
\* initSession cancels the pending timeout when it starts a generation, so
\* no timeout set under an earlier generation is left to call initSession.
C26_OneTimerOfCurrentGeneration ==
  /\ Len(timeouts) <= 1
  /\ \A i \in DOMAIN timeouts : timeouts[i].gen = currentSessionGen
  /\ timeouts = (IF reconnectTimer = NoTimer THEN <<>> ELSE <<reconnectTimer>>)

\* a reconnect is pending in the generation that reset() started while the
\* timeout of the first generation was pending
C26_TimerOfSecondGeneration ==
  /\ currentSessionGen = 2 /\ autoScheduled = 1
  /\ Len(timeouts) = 1 /\ timeouts[1].gen = 2
  /\ Len(sockets) >= 2 /\ sockets[1].state = "closed"


(***************************************************************************)
(* Playback across an interrupt, and in order.                             *)
(***************************************************************************)
\* C27: a source is never started for a chunk that was enqueued before the
\* latest interruptPlayback(); in particular the chunk that was taken from
\* the queue and was being decoded when the interrupt ran is discarded.
C27_InterruptedChunkNeverStarts ==
  [][DecodeResolves => decoding[1].id > interruptedThrough]_vars

\* the id of the chunk started last, the chunks being numbered as they are
\* enqueued
StartedThrough == IF started = <<>> THEN 0 ELSE started[Len(started)].id

\* the ids of the chunks not started yet: the one in decoding, then the queue
WaitingIds ==
  [k \in 1..(Len(decoding) + Len(outputPendingBase64)) |->
     IF k <= Len(decoding) THEN decoding[k].id
     ELSE outputPendingBase64[k - Len(decoding)].id]

\* C28: with no interrupt and every decoding succeeding, every chunk that is
\* enqueued is eventually started: again and again a moment comes at which
\* every chunk enqueued so far has been started, so a pass that stops with
\* chunks queued is always followed by an 'ended' event or an enqueue that
\* takes them up.
C28_EveryChunkIsStarted == []<>(StartedThrough = enqueued)

\* every chunk of the burst has been started, the last one after it had
\* waited in the queue for the sources before it to end
C28_QueuedChunkWasStarted ==
  /\ enqueued = MaxPlayChunks /\ StartedThrough = enqueued
  /\ started[Len(started)].waited /\ started[Len(started)].prebuffered
  /\ outputPendingBase64 = <<>> /\ decoding = <<>>

\* C29: with no interrupt, the chunks are started in the order they were
\* enqueued and each exactly once: a started chunk is the successor of the
\* one started before it, and the chunks still waiting are exactly those
\* enqueued after the last started one, in order; and no source is started
\* before the scheduled end of the source started before it.
C29_StartedInOrderWithoutOverlap ==
  /\ WaitingIds = [k \in 1..(enqueued - StartedThrough) |-> StartedThrough + k]
  /\ \A n \in 2..Len(started) :
       /\ started[n].id = started[n - 1].id + 1
       /\ started[n].start >= started[n - 1].end

\* the third chunk waited in the queue while two sources were scheduled and
\* was started by an 'ended' event, right behind the second
C29_ThirdStartedBehindSecond ==
  /\ Len(started) = 2 /\ started[2].id = 3
  /\ started[2].waited
  /\ started[2].start = started[1].end
  /\ decoding = <<>>


(***************************************************************************)
(* The batches of one capture, from start to stop.                         *)
(***************************************************************************)
\* the batches handed to the callback, one after the other
RECURSIVE Flat(_)
Flat(batches) ==
  IF batches = <<>> THEN <<>> ELSE Head(batches) \o Flat(Tail(batches))

\* C30: once stop() has run after any sequence of worklet messages, the
\* batches emitted, the flushed one included, are together the captured
\* samples in their order; every batch but the last holds exactly 640
\* samples, and the last holds 640 or, when it is the flushed remainder,
\* fewer.
C30_BatchesAreTheCapture ==
  ~mediaStream =>
    /\ Flat(emitted) = [i \in 1..Sum(captured) |-> i]
    /\ pendingInputChunks = <<>> /\ pendingSamples = 0
    /\ \A b \in 1..Len(emitted) :
         IF b < Len(emitted) THEN Len(emitted[b]) = INPUT_BATCH_SAMPLES
         ELSE /\ Len(emitted[b]) \in 1..INPUT_BATCH_SAMPLES
              /\ Len(emitted[b]) = INPUT_BATCH_SAMPLES <=>
                   Sum(captured) % INPUT_BATCH_SAMPLES = 0

\* a capture of three chunks was stopped: one full batch had been emitted
\* and the stop flushed the remainder
C30_StoppedWithARemainder ==
  /\ ~mediaStream
  /\ Len(captured) = 3
  /\ Len(emitted) = 2
  /\ Len(emitted[1]) = INPUT_BATCH_SAMPLES
  /\ Len(emitted[2]) < INPUT_BATCH_SAMPLES


(***************************************************************************)
(* The callbacks of the current generation.                                *)
(***************************************************************************)
\* the onopen callback of a socket of the current generation runs
OpenOfCurrent ==
  \E s \in SocketIds : sockets[s].gen = currentSessionGen /\ SocketOpens(s)

\* C31: when the socket of the current generation opens, the session is
\* marked open, isConnecting becomes false and the reconnect attempt counter
\* is 0.
C31_OpenMarksTheSession ==
  [][OpenOfCurrent =>
       sessionOpen' /\ ~isConnecting' /\ reconnectAttempts' = 0]_vars

\* the socket of the generation that a reconnect timer started has opened
C31_OpenedAfterReconnect ==
  /\ currentSessionGen = 2 /\ resuming # NoSession
  /\ sockets[resuming].gen = 2
  /\ sessionOpen /\ ~isConnecting /\ reconnectAttempts = 0


\* interruptPlayback() ran in this step: the time of the last interrupt was
\* taken, or playback shows it (sources stopped, queue cut off)
InterruptCarriedOut ==
  \/ lastInterruptAt' # lastInterruptAt
  \/ stoppedSources' > stoppedSources
  \/ interruptedThrough' # interruptedThrough

\* C32: an inbound message carries out an interrupt only if it is flagged
\* interrupted, recording is active and more than 300 ms have passed since
\* the last interrupt carried out, so that two interrupts carried out are
\* more than 300 ms apart; and a message received while not recording
\* leaves the scheduled sources, the stopped sources and the queue as its
\* own audio, if any, left them.
C32_InterruptIsDebounced ==
  [][\A s \in SocketIds, message \in BargeInMessages :
       SocketMessage(s, message) =>
         /\ InterruptCarriedOut =>
              /\ message.interrupted /\ isRecording
              /\ now - lastInterruptAt > INTERRUPT_DEBOUNCE_MS
              /\ lastInterruptAt' = now
         /\ ~isRecording =>
              /\ UNCHANGED <<outputSources, stoppedSources, interruptedThrough,
                             lastInterruptAt>>
              /\ message.audio = NoAudio =>
                   UNCHANGED <<nextStartTime, outputPendingBase64, decoding>>]_vars

\* an interrupt was carried out, more than 300 ms after an earlier one could
\* have been, and stopped at least one source
C32_InterruptedLate ==
  /\ isRecording /\ lastInterruptAt = now
  /\ lastInterruptAt > 2 * INTERRUPT_DEBOUNCE_MS + 1
  /\ stoppedSources > 0 /\ nextStartTime = 0


(***************************************************************************)
(* Grounding sources.                                                      *)
(***************************************************************************)
\* the key of a source list: the URIs of its web entries, sorted
KeyOf(groundingChunks) ==
  SortUris(SelectSeq(groundingChunks, LAMBDA c : c # NoWeb))

\* onmessage writes the timeline entry of a source list in this step
SourcesLogged ==
  lastLoggedSources' # lastLoggedSources /\ lastLoggedSources' # <<>>

\* C33: over any sequence of inbound messages a source set is logged once
\* in total: a timeline entry is written for a key only if none was written
\* for that key before.
C33_SourcesLoggedOncePerKey ==
  [][SourcesLogged => lastLoggedSources' \notin loggedKeys]_vars

\* C33 for messages that follow one another: a message whose key is the key
\* logged last writes no entry, in whatever order it lists the sources
C33_SameKeyInARowLoggedOnce ==
  [][\A s \in SocketIds, message \in GroundingMessages :
       /\ SocketMessage(s, message)
       /\ KeyOf(message.groundingChunks) = lastLoggedSources
       => UNCHANGED <<timelineEvents, loggedKeys, lastLoggedSources>>]_vars


(***************************************************************************)
(* The health sampler.                                                     *)
(***************************************************************************)
BufferStates == {"idle", "err", "warn", "high", "healthy", "normal"}

\* what the sampler is about to read: the buffered ms and the active flag
SampledMs == getBufferedOutputSeconds(St)
SampledActive == hasActiveOutput(St)

\* C34: the sampler derives exactly one state from (buffered ms,
\* activeOutput): idle iff nothing is active and ms = 0; otherwise err below
\* 60, warn in 60..119, high above 500, healthy in 200..350 and normal in
\* 120..199 and 351..500.
C34_ClassifierTable ==
  [][HealthSample =>
       /\ lastBufferState' \in BufferStates
       /\ lastBufferState' = "idle" <=> (~SampledActive /\ SampledMs = 0)
       /\ lastBufferState' # "idle" =>
            /\ lastBufferState' = "err" <=> SampledMs < 60
            /\ lastBufferState' = "warn" <=> (60 <= SampledMs /\ SampledMs < 120)
            /\ lastBufferState' = "high" <=> SampledMs > 500
            /\ lastBufferState' = "healthy" <=> (200 <= SampledMs /\ SampledMs <= 350)
            /\ lastBufferState' = "normal"
                 <=> \/ (120 <= SampledMs /\ SampledMs <= 199)
                     \/ (351 <= SampledMs /\ SampledMs <= 500)]_vars

\* a sample has found the buffer in the upper normal band
C34_SampledUpperNormal ==
  /\ lastBufferState = "normal"
  /\ SampledActive
  /\ 351 <= SampledMs /\ SampledMs <= 500

\* the step has written a buffer entry
BufferEntryWritten == bufferEntries' # bufferEntries

\* C35: a sample writes a buffer entry only when the state it derives
\* differs from the state of the previous sample, and never on entering
\* idle or normal.
C35_EntriesOnEdgesOnly ==
  [][HealthSample =>
       /\ BufferEntryWritten =>
            /\ lastBufferState' # lastBufferState
            /\ lastBufferState' \in {"healthy", "warn", "err", "high"}
            /\ timelineEvents'[1].message[1] = "buffer"
       /\ lastBufferState' = lastBufferState => ~BufferEntryWritten
       /\ lastBufferState' \in {"idle", "normal"} => ~BufferEntryWritten]_vars

\* a second sample in a row has found the buffer healthy and kept silent
C35_SecondHealthySampleSilent ==
  /\ lastBufferState = "healthy"
  /\ bufferState(SampledActive, SampledMs) = "healthy"
  /\ timelineEvents # <<>>
  /\ timelineEvents[1].message = <<"buffer", "saudavel">>

(***************************************************************************)
(* Leaving the connecting state.                                           *)
(***************************************************************************)
\* every connection attempt of the current initSession has settled: none
\* of its connect() calls is pending or about to resume, and none of its
\* sockets is still connecting
AttemptsSettled ==
  /\ Holders(currentSessionGen) = {}
  /\ resuming = NoSession
  /\ \A s \in SocketIds :
       sockets[s].gen = currentSessionGen => sockets[s].state # "connecting"

\* C36: once all the connection attempts of the current initSession have
\* settled, by success or by failure, isConnecting is false, whatever the
\* roster, the empty one included.
C36_SettledSessionNotConnecting == AttemptsSettled => ~isConnecting

\* with a roster that still has a model, a settled initSession has left the
\* connecting state
C36_SettledWithModelsNotConnecting ==
  (AttemptsSettled /\ models # <<>>) => ~isConnecting

(***************************************************************************)
(* A start() that fails.                                                   *)
(***************************************************************************)
\* start() fails, at whatever step
StartFails == StartRejects \/ StartGraphFails

Stopped(ms, node, graphs) == ~ms /\ ~node /\ graphs = 0

\* C37: a start() that fails, at whatever step, on a service that was
\* stopped leaves it stopped: no media stream is held and no capture node
\* is wired, so the next start() acquires afresh.
C37_FailedStartLeavesStopped ==
  [][(StartFails /\ startCalls = 1
        /\ Stopped(mediaStream, audioWorkletNode, captureGraphs))
       => Stopped(mediaStream', audioWorkletNode', captureGraphs')]_vars

\* a start() that fails before it has the stream (worklet module load,
\* microphone acquisition) leaves a stopped service stopped
C37_EarlyFailureLeavesStopped ==
  [][(StartRejects /\ startCalls = 1
        /\ Stopped(mediaStream, audioWorkletNode, captureGraphs))
       => Stopped(mediaStream', audioWorkletNode', captureGraphs')]_vars

\* after a failed start() the controller reports recording while no capture
\* graph is wired
C37_ListeningWithoutGraph ==
  isRecording /\ startCalls = 0 /\ mediaStream /\ captureGraphs = 0

\* C38: when the adapter's startRecording fails because the microphone
\* cannot be acquired, the adapter is left not recording, so that a later
\* startRecording acquires again, and the controller never reports recording
\* while no capture is running.
C38_FailedAdapterStartNotRecording ==
  [][(OpenAIStartRejects /\ startCalls = 1) => ~adapterIsRecording']_vars

\* after a refused microphone the controller reports recording while no
\* start() is pending, no stream is held and no capture graph is wired
C38_RecordingAfterRefusal ==
  /\ host = "openai" /\ isRecording
  /\ error = <<"erro", "ao", "iniciar", "gravacao">>
  /\ startCalls = 0 /\ ~mediaStream /\ captureGraphs = 0

(***************************************************************************)
(* OpenAIRealtimeService: reconnecting.                                    *)
(***************************************************************************)
\* the step creates a WebSocket
OaSocketCreated == Len(oaSockets') > Len(oaSockets)

\* C39: after disconnect() the service creates no WebSocket until its owner
\* calls connect() again: a reconnect timeout or a connection wait that was
\* pending at the disconnect does not reconnect.
C39_NoSocketAfterDisconnect ==
  [][(oaDisconnected /\ OaSocketCreated) => OaOwnerConnect]_vars

\* after a disconnect, with no connect() by the owner, a socket is connecting
C39_ConnectingAfterDisconnect ==
  /\ oaDisconnected
  /\ ws # NoWs /\ oaSockets[ws].state = "connecting"

OaLive == {s \in OaSocketIds : oaSockets[s].state \in {"connecting", "open"}}

\* C40: the service has at most one connecting-or-open WebSocket at a time,
\* and the failure of one socket schedules at most one reconnect, whether
\* connect() or onclose or both report it.
C40_OneSocketOneReconnect ==
  /\ Cardinality(OaLive) <= 1
  /\ \A s \in OaSocketIds : oaSockets[s].reconnects <= 1

\* the first socket is still connecting when the wait of its connect() has
\* timed out and the timeout set for it has opened a second socket
C40_SecondSocketWhileFirstConnecting ==
  /\ ~oaDisconnected
  /\ Len(oaSockets) = 2
  /\ oaSockets[1].state = "connecting" /\ oaSockets[1].reconnects = 1
  /\ oaSockets[2].state = "connecting"

\* the first socket's failure was reported by connect() and then by onclose:
\* it has advanced the backoff by two steps
C40_TwoStepsForOneFailure ==
  /\ Len(oaSockets) >= 2
  /\ oaSockets[1].state = "closed" /\ oaSockets[1].reconnects = 2

\* the attempt counter stays within the limit
C40_AttemptsWithinLimit == oaReconnectAttempts <= OA_MAX_RECONNECT_ATTEMPTS

====
